---- MODULE Spec2Model ----
(***************************************************************************)
(* Update routing and moderation state machine of the customer-support bot *)
(* (src/main.py): the Store tables, the MessageTracker registry, the       *)
(* pending deletion timers and process_update with every handler it calls. *)
(*                                                                         *)
(* Python strings are sequences of one-character strings, so that prefix   *)
(* tests, split, strip, lower, substring search and int() are computed on  *)
(* the characters.  Every Store call and every ChatTransport call whose    *)
(* result the code inspects may fail; the outcomes of one update's calls   *)
(* are drawn with the update (the set of failing call ordinals).           *)
(***************************************************************************)
EXTENDS Integers, Sequences, FiniteSets, TLC

\* ------------------------------------------------------------------------
\* Configuration (environment variables of the process)
\* ------------------------------------------------------------------------

\* ADMIN_ID: the configured admin's user id
ADMIN_ID == 1
\* GROUP_ID: the chat id of the designated support group
GROUP_ID == 50
\* a second group the bot was added to
OTHER_GROUP == 60
\* an ordinary user, and a user the platform reports as administrator of
\* both groups (getChatMember status "administrator")
USER == 2
CHAT_ADMIN == 3

\* ------------------------------------------------------------------------
\* Bounds of the model
\* ------------------------------------------------------------------------

\* sent messages that pending timers hold at a time
MaxMsgs == 2
\* rows of the complaints table
MaxComplaints == 2
\* rows of the banned_words table
MaxWords == 2
\* rows of the auto_responses table
MaxResponses == 2
\* Warning rows kept for one user
MaxWarnRows == 4
\* calls of one update that fail
MaxFaults == 2

\* ------------------------------------------------------------------------
\* Python str operations
\* ------------------------------------------------------------------------

UpperCase == <<"A", "B", "D", "H">>
LowerCase == <<"a", "b", "d", "h">>

\* str.lower() on one character
LowerChar(c) ==
    IF \E i \in 1..Len(UpperCase) : UpperCase[i] = c
    THEN LowerCase[CHOOSE i \in 1..Len(UpperCase) : UpperCase[i] = c]
    ELSE c

\* str.lower()
Lower(t) == [i \in 1..Len(t) |-> LowerChar(t[i])]

\* str.startswith(p)
StartsWith(t, p) ==
    /\ Len(t) >= Len(p)
    /\ SubSeq(t, 1, Len(p)) = p

\* p occurs in t at position i
OccursAt(t, p, i) ==
    /\ i + Len(p) - 1 <= Len(t)
    /\ SubSeq(t, i, i + Len(p) - 1) = p

\* `p in t` (substring containment)
Contains(t, p) == \E i \in 1..(Len(t) + 1) : OccursAt(t, p, i)

\* str.find(p) + 1 (0 when absent)
Find(t, p) ==
    IF Contains(t, p)
    THEN CHOOSE i \in 1..(Len(t) + 1) :
            /\ OccursAt(t, p, i)
            /\ \A j \in 1..(i - 1) : ~OccursAt(t, p, j)
    ELSE 0

\* str.split(sep, maxsplit): the list of parts
RECURSIVE Split(_, _, _)
Split(t, sep, maxsplit) ==
    IF maxsplit = 0 \/ Find(t, sep) = 0
    THEN <<t>>
    ELSE LET i == Find(t, sep)
         IN  <<SubSeq(t, 1, i - 1)>>
               \o Split(SubSeq(t, i + Len(sep), Len(t)), sep, maxsplit - 1)

\* str.strip(): leading and trailing blanks removed
RECURSIVE Strip(_)
Strip(t) ==
    IF t = <<>> THEN t
    ELSE IF Head(t) = " " THEN Strip(Tail(t))
    ELSE IF t[Len(t)] = " " THEN Strip(SubSeq(t, 1, Len(t) - 1))
    ELSE t

Digits == <<"0", "1", "2", "3", "4", "5", "6", "7", "8", "9">>

IsDigit(c) == \E i \in 1..10 : Digits[i] = c

DigitValue(c) == (CHOOSE i \in 1..10 : Digits[i] = c) - 1

RECURSIVE Decimal(_)
Decimal(t) ==
    IF t = <<>> THEN 0
    ELSE 10 * Decimal(SubSeq(t, 1, Len(t) - 1)) + DigitValue(t[Len(t)])

\* int(t): [ok |-> TRUE, val |-> n], or ok = FALSE where Python raises
\* ValueError (blanks around the number and one sign are accepted)
ParseInt(t) ==
    LET u    == Strip(t)
        sgn  == u # <<>> /\ Head(u) \in {"-", "+"}
        body == IF sgn THEN Tail(u) ELSE u
    IN  IF body # <<>> /\ \A i \in 1..Len(body) : IsDigit(body[i])
        THEN [ok |-> TRUE,
              val |-> IF sgn /\ Head(u) = "-" THEN 0 - Decimal(body) ELSE Decimal(body)]
        ELSE [ok |-> FALSE, val |-> 0]


T_start ==
    <<"/", "s", "t", "a", "r", "t">>

T_admin ==
    <<"/", "a", "d", "m", "i", "n">>

T_reply_ok ==
    <<"/", "r", "e", "p", "l", "y", " ", "2", " ", "o", "k">>

T_reply_short ==
    <<"/", "r", "e", "p", "l", "y", " ", "2">>

T_reply_nan ==
    <<"/", "r", "e", "p", "l", "y", " ", "x", " ", "o", "k">>

T_reply_bare ==
    <<"/", "r", "e", "p", "l", "y">>

T_addban ==
    <<"/", "a", "d", "d", "b", "a", "n", " ", "B", "a", "d">>

T_removeban ==
    <<"/", "r", "e", "m", "o", "v", "e", "b", "a", "n", " ", "B", "A", "D">>

T_addresponse ==
    <<"/", "a", "d", "d", "r", "e", "s", "p", "o", "n", "s", "e", " ", "H", "i", " ", "|", " ", "y", "o">>

T_addresponse2 ==
    <<"/", "a", "d", "d", "r", "e", "s", "p", "o", "n", "s", "e", " ", "i", " ", "|", " ", "n", "o">>

T_addresponse_nosep ==
    <<"/", "a", "d", "d", "r", "e", "s", "p", "o", "n", "s", "e", " ", "h", "i", "|", "y", "o">>

T_closegroup ==
    <<"/", "c", "l", "o", "s", "e", "g", "r", "o", "u", "p">>

T_opengroup ==
    <<"/", "o", "p", "e", "n", "g", "r", "o", "u", "p">>

T_setautodelete2 ==
    <<"/", "s", "e", "t", "a", "u", "t", "o", "d", "e", "l", "e", "t", "e", " ", "2">>

T_setautodelete1 ==
    <<"/", "s", "e", "t", "a", "u", "t", "o", "d", "e", "l", "e", "t", "e", " ", "1">>

T_setautodelete0 ==
    <<"/", "s", "e", "t", "a", "u", "t", "o", "d", "e", "l", "e", "t", "e", " ", "0">>

T_setautodelete_neg ==
    <<"/", "s", "e", "t", "a", "u", "t", "o", "d", "e", "l", "e", "t", "e", " ", "-", "1">>

T_setautodelete_nan ==
    <<"/", "s", "e", "t", "a", "u", "t", "o", "d", "e", "l", "e", "t", "e", " ", "x">>

T_bad_hi ==
    <<"a", " ", "B", "A", "D", " ", "h", "i">>

T_start_bad_hi ==
    <<"/", "s", "t", "a", "r", "t", " ", "B", "A", "D", " ", "h", "i">>

T_hi ==
    <<"H", "i", " ", "a", "l", "l">>

T_ok ==
    <<"o", "k">>

T_late ==
    <<"m", "y", " ", "o", "r", "d", "e", "r", " ", "i", "s", " ", "l", "a", "t", "e">>

T_empty ==
    <<>>
CMD_START == <<"/", "s", "t", "a", "r", "t">>
CMD_ADMIN == <<"/", "a", "d", "m", "i", "n">>
CMD_REPLY == <<"/", "r", "e", "p", "l", "y", " ">>
CMD_ADDBAN == <<"/", "a", "d", "d", "b", "a", "n", " ">>
CMD_REMOVEBAN == <<"/", "r", "e", "m", "o", "v", "e", "b", "a", "n", " ">>
CMD_ADDRESPONSE == <<"/", "a", "d", "d", "r", "e", "s", "p", "o", "n", "s", "e", " ">>
CMD_CLOSEGROUP == <<"/", "c", "l", "o", "s", "e", "g", "r", "o", "u", "p">>
CMD_OPENGROUP == <<"/", "o", "p", "e", "n", "g", "r", "o", "u", "p">>
CMD_SETAUTODELETE == <<"/", "s", "e", "t", "a", "u", "t", "o", "d", "e", "l", "e", "t", "e", " ">>
SEPARATOR == <<" ", "|", " ">>
BLANK == <<" ">>
\* ------------------------------------------------------------------------
\* The platform (environment of the bot)
\* ------------------------------------------------------------------------

Users == {ADMIN_ID, USER, CHAT_ADMIN}

\* getChatMember's status of a user in a group chat
MemberStatus(chat_id, user_id) ==
    IF user_id = CHAT_ADMIN THEN "administrator"
    ELSE IF user_id = ADMIN_ID /\ chat_id = GROUP_ID THEN "creator"
    ELSE "member"

\* user name of a sender (message["from"]["username"])
Username(user_id) ==
    IF user_id = ADMIN_ID THEN "boss"
    ELSE IF user_id = USER THEN "ann"
    ELSE "mod"

\* The ids of the bot's own messages: those MaxMsgs pending timers can hold
\* and those of the two sends one update makes at most
MessageIds == 1..(MaxMsgs + 2)

\* message id of an inbound message
InboundId == MaxMsgs + 3

\* ------------------------------------------------------------------------
\* State
\* ------------------------------------------------------------------------

VARIABLES
    complaints,       \* Store table complaints: sequence of rows
    banned_words,     \* Store table banned_words: sequence of words
    auto_responses,   \* Store table auto_responses: sequence of rows
    user_warnings,    \* Store table user_warnings: rows per user_id
    group_settings,   \* Store table group_settings: sequence of rows
    bot_messages,     \* TelegramBot.bot_messages: chat_id -> message ids
    tasks,            \* pending asyncio tasks (deletion timers)
    update,           \* the update or timer whose handling just ended (or NoUpdate)
    calls,            \* Store and ChatTransport calls made in that handling
    paths,            \* handlers process_update invoked in that handling
    raised,           \* an exception reached process_update's except clause
    running           \* per worker: the handler it is in, between two of its calls

store == <<complaints, banned_words, auto_responses, user_warnings, group_settings>>
tracker == <<bot_messages, tasks>>
request == <<update, calls, paths, raised>>
vars == <<store, tracker, request, running>>

NoUpdate == [kind |-> "none"]

\* the handlers that can be under way at once, and a worker with none
Workers == {1, 2}
Idle == [pc |-> "idle"]

Chats == Users \cup {GROUP_ID, OTHER_GROUP}

\* the defaults get_group_settings returns (lines 187-192 and 195-200)
DefaultSettings ==
    [is_closed |-> FALSE, max_warnings |-> 3, mute_duration |-> 60,
     auto_delete_minutes |-> 0]

\* one logged call
Call(op, chat_id, id, val, ok) ==
    [op |-> op, chat |-> chat_id, id |-> id, val |-> val, ok |-> ok]

\* ------------------------------------------------------------------------
\* The machine state a handler threads through its steps: the variables,
\* the failing call ordinals `o` of this update, the fallible calls made so
\* far `k`, and the value `ret` the last call returned.
\* ------------------------------------------------------------------------

Start(o) ==
    [complaints |-> complaints, banned_words |-> banned_words,
     auto_responses |-> auto_responses, user_warnings |-> user_warnings,
     group_settings |-> group_settings, bot_messages |-> bot_messages,
     tasks |-> tasks,
     calls |-> <<>>, paths |-> <<>>, raised |-> FALSE,
     o |-> o, k |-> 0, ret |-> FALSE]

\* the outcome of the next fallible call
Succeeds(s) == (s.k + 1) \notin s.o

Log(s, c) == [s EXCEPT !.calls = Append(@, c)]

\* a fallible call was made: log it and count it
Made(s, c) == [Log(s, c) EXCEPT !.k = @ + 1]

Enter(s, handler) == [s EXCEPT !.paths = Append(@, handler)]

Raise(s) == [s EXCEPT !.raised = TRUE]

\* ------------------------------------------------------------------------
\* Database
\* ------------------------------------------------------------------------

add_user(s, user_id) ==
    Log(s, Call("add_user", 0, user_id, <<>>, TRUE))

add_complaint(s, user_id, message, username) ==
    LET ok  == Succeeds(s)
        row == [id |-> Len(s.complaints) + 1, user_id |-> user_id,
                username |-> username, message |-> message, status |-> "pending"]
        s1  == Made(s, Call("add_complaint", 0, user_id, row, ok))
    IN  IF ok
        THEN [s1 EXCEPT !.complaints = Append(@, row), !.ret = [ok |-> TRUE, id |-> row.id]]
        ELSE [s1 EXCEPT !.ret = [ok |-> FALSE, id |-> 0]]

\* lines 67-89: the three counts, read in one try block (no code sets a
\* status other than pending); ret: the counts
get_complaints_stats(s) ==
    LET ok == Succeeds(s)
        n  == IF ok THEN Len(s.complaints) ELSE 0
        r  == [total |-> n, pending |-> n, resolved |-> 0]
    IN  [Made(s, Call("get_complaints_stats", 0, 0, r, ok)) EXCEPT !.ret = r]

\* lines 91-98: the users table is written by add_user and read for this
\* count alone; its rows are not kept here
get_users_stats(s) ==
    Made(s, Call("get_users_stats", 0, 0, <<>>, Succeeds(s)))

\* lines 100-107; ret: the count
get_auto_responses_stats(s) ==
    LET ok == Succeeds(s)
        r  == IF ok THEN Len(s.auto_responses) ELSE 0
    IN  [Made(s, Call("get_auto_responses_stats", 0, 0, r, ok)) EXCEPT !.ret = r]

get_banned_words(s) ==
    LET ok == Succeeds(s)
        r  == IF ok THEN s.banned_words ELSE <<>>
    IN  [Made(s, Call("get_banned_words", 0, 0, r, ok)) EXCEPT !.ret = r]

add_banned_word(s, word) ==
    LET ok == Succeeds(s)
        s1 == Made(s, Call("add_banned_word", 0, 0, Lower(word), ok))
    IN  IF ok THEN [s1 EXCEPT !.banned_words = Append(@, Lower(word))] ELSE s1

remove_banned_word(s, word) ==
    LET ok == Succeeds(s)
        s1 == Made(s, Call("remove_banned_word", 0, 0, Lower(word), ok))
        keep(w) == w # Lower(word)
    IN  IF ok THEN [s1 EXCEPT !.banned_words = SelectSeq(@, keep)] ELSE s1

get_auto_responses(s) ==
    LET ok == Succeeds(s)
        r  == IF ok THEN s.auto_responses ELSE <<>>
    IN  [Made(s, Call("get_auto_responses", 0, 0, r, ok)) EXCEPT !.ret = r]

add_auto_response(s, trigger, response) ==
    LET ok  == Succeeds(s)
        row == [trigger |-> Lower(trigger), response |-> response]
        s1  == Made(s, Call("add_auto_response", 0, 0, row, ok))
    IN  IF ok THEN [s1 EXCEPT !.auto_responses = Append(@, row)] ELSE s1

add_warning(s, user_id, reason) ==
    LET ok == Succeeds(s)
        s1 == Made(s, Call("add_warning", 0, user_id, reason, ok))
    IN  IF ok THEN [s1 EXCEPT !.user_warnings[user_id] = @ + 1] ELSE s1

\* ret: the number of rows read (len(warnings))
get_user_warnings(s, user_id) ==
    LET ok == Succeeds(s)
        r  == IF ok THEN s.user_warnings[user_id] ELSE 0
    IN  [Made(s, Call("get_user_warnings", 0, user_id, r, ok)) EXCEPT !.ret = r]

\* clear_user_warnings deleting one row only
clear_user_warnings_one(s, user_id) ==
    LET ok == Succeeds(s)
        s1 == Made(s, Call("clear_user_warnings", 0, user_id, <<>>, ok))
    IN  IF ok /\ s.user_warnings[user_id] > 0
        THEN [s1 EXCEPT !.user_warnings[user_id] = @ - 1]
        ELSE s1

clear_user_warnings(s, user_id) ==
    LET ok == Succeeds(s)
        s1 == Made(s, Call("clear_user_warnings", 0, user_id, <<>>, ok))
    IN  IF ok THEN [s1 EXCEPT !.user_warnings[user_id] = 0] ELSE s1

\* get_group_settings whose except clause returns a closed group
get_group_settings_closed_on_error(s) ==
    LET ok == Succeeds(s)
        r  == IF ok /\ Len(s.group_settings) > 0
              THEN s.group_settings[1]
              ELSE IF ok THEN DefaultSettings
              ELSE [DefaultSettings EXCEPT !.is_closed = TRUE]
    IN  [Made(s, Call("get_group_settings", 0,
                      IF ok THEN Len(s.group_settings) ELSE 0, r, ok))
           EXCEPT !.ret = r]

\* the logged call's id is the number of rows the select found
get_group_settings(s) ==
    LET ok == Succeeds(s)
        r  == IF ok /\ Len(s.group_settings) > 0
              THEN s.group_settings[1]
              ELSE DefaultSettings
    IN  [Made(s, Call("get_group_settings", 0,
                      IF ok THEN Len(s.group_settings) ELSE 0, r, ok))
           EXCEPT !.ret = r]

\* a row inserted with the columns of `settings` set and the others at the
\* table's column defaults
NewRow(settings) ==
    [f \in DOMAIN DefaultSettings |->
        IF f \in DOMAIN settings THEN settings[f] ELSE DefaultSettings[f]]

\* row with the columns of `settings` overwritten
Updated(row, settings) ==
    [f \in DOMAIN row |-> IF f \in DOMAIN settings THEN settings[f] ELSE row[f]]

\* update_group_settings writing a whole new row over the existing one
update_group_settings_replace(s, settings) ==
    LET ok1 == Succeeds(s)
        s1  == Made(s, Call("select_group_settings", 0, 0, <<>>, ok1))
        ok2 == Succeeds(s1)
        s2  == Made(s1, Call("update_group_settings", 0, 0, settings, ok2))
    IN  IF ~ok1 THEN s1
        ELSE IF ~ok2 THEN s2
        ELSE IF Len(s.group_settings) > 0
        THEN [s2 EXCEPT !.group_settings[1] = NewRow(settings)]
        ELSE [s2 EXCEPT !.group_settings = Append(@, NewRow(settings))]

\* update_group_settings inserting without the test of line 208
update_group_settings_insert(s, settings) ==
    LET ok1 == Succeeds(s)
        s1  == Made(s, Call("select_group_settings", 0, 0, <<>>, ok1))
        ok2 == Succeeds(s1)
        s2  == Made(s1, Call("update_group_settings", 0, 0, settings, ok2))
    IN  IF ~ok1 THEN s1
        ELSE IF ~ok2 THEN s2
        ELSE [s2 EXCEPT !.group_settings = Append(@, NewRow(settings))]

\* select id limit 1, then update ... eq(id) or insert; an exception of
\* either Store call ends the method (line 215)
update_group_settings(s, settings) ==
    LET ok1 == Succeeds(s)
        s1  == Made(s, Call("select_group_settings", 0, 0, <<>>, ok1))
        ok2 == Succeeds(s1)
        s2  == Made(s1, Call("update_group_settings", 0, 0, settings, ok2))
    IN  IF ~ok1 THEN s1
        ELSE IF ~ok2 THEN s2
        ELSE IF Len(s.group_settings) > 0
        THEN [s2 EXCEPT !.group_settings[1] = Updated(@, settings)]
        ELSE [s2 EXCEPT !.group_settings = Append(@, NewRow(settings))]

\* ------------------------------------------------------------------------
\* TelegramBot: ChatTransport calls and the MessageTracker
\* ------------------------------------------------------------------------

\* the text of an outbound message: its template and the values put in it
Msg(kind, args) == [kind |-> kind, args |-> args]

\* a pending asyncio task sleeping `delay` seconds before its deleteMessage
Task(kind, chat_id, message_id, delay) ==
    [kind |-> kind, chat_id |-> chat_id, message_id |-> message_id, delay |-> delay]

\* track_bot_message without the test of auto_delete_minutes
track_bot_message_always(s, chat_id, message_id) ==
    LET s1 == get_group_settings(s)
        auto_delete_minutes == s1.ret.auto_delete_minutes
    IN  [s1 EXCEPT
            !.bot_messages[chat_id] = Append(@, message_id),
            !.tasks = @ \cup {Task("auto", chat_id, message_id,
                                   auto_delete_minutes * 60)}]

\* track_bot_message sleeping `minutes` seconds (line 349 without the * 60)
track_bot_message_seconds(s, chat_id, message_id) ==
    LET s1 == get_group_settings(s)
        auto_delete_minutes == s1.ret.auto_delete_minutes
    IN  IF auto_delete_minutes > 0
        THEN [s1 EXCEPT
                !.bot_messages[chat_id] = Append(@, message_id),
                !.tasks = @ \cup {Task("auto", chat_id, message_id,
                                       auto_delete_minutes)}]
        ELSE s1

\* an absent key of bot_messages and an empty list are one value here: no
\* code reads the difference
track_bot_message(s, chat_id, message_id) ==
    LET s1 == get_group_settings(s)
        auto_delete_minutes == s1.ret.auto_delete_minutes
    IN  IF auto_delete_minutes > 0
        THEN [s1 EXCEPT
                !.bot_messages[chat_id] = Append(@, message_id),
                !.tasks = @ \cup {Task("auto", chat_id, message_id,
                                       auto_delete_minutes * 60)}]
        ELSE s1

\* The platform's message ids are opaque to the bot, which only stores them
\* and hands them back.  The id of a sent message is the least one that no
\* pending timer holds and that no earlier send of this update was given.
FreshId(s) ==
    LET held == {t.message_id : t \in s.tasks}
                  \cup {s.calls[i].id : i \in {j \in 1..Len(s.calls) :
                                                s.calls[j].op = "sendMessage"}}
    IN  CHOOSE id \in MessageIds :
            /\ id \notin held
            /\ \A j \in 1..(id - 1) : j \in held

\* ret: [ok, message_id], the platform's answer
send_message(s, chat_id, text, reply_to_message_id) ==
    LET ok  == Succeeds(s)
        mid == FreshId(s)
        s1  == Made(s, Call("sendMessage", chat_id, IF ok THEN mid ELSE 0,
                            [text |-> text, reply_to |-> reply_to_message_id], ok))
    IN  IF ok
        THEN [track_bot_message(s1, chat_id, mid)
                EXCEPT !.ret = [ok |-> TRUE, message_id |-> mid]]
        ELSE [s1 EXCEPT !.ret = [ok |-> FALSE, message_id |-> 0]]

\* the result of deleteMessage is read by no caller
delete_message(s, chat_id, message_id) ==
    Log(s, Call("deleteMessage", chat_id, message_id, <<>>, TRUE))

\* lines 240-249; the result of answerCallbackQuery is read by no caller
answer_callback_query(s, callback_query_id) ==
    Log(s, Call("answerCallbackQuery", 0, callback_query_id, <<>>, TRUE))

\* lines 251-262; the result of editMessageText is read by no caller
edit_message_text(s, chat_id, message_id, text) ==
    Log(s, Call("editMessageText", chat_id, message_id, text, TRUE))

\* the result of restrictChatMember is read by no caller; val: the minutes
\* added to now() for until_date
restrict_chat_member(s, chat_id, user_id, minutes) ==
    Log(s, Call("restrictChatMember", chat_id, user_id, minutes, TRUE))

\* is_admin answering True when getChatMember failed
is_admin_open_on_error(s, chat_id, user_id) ==
    LET ok == Succeeds(s)
        r  == ~ok \/ MemberStatus(chat_id, user_id) \in {"creator", "administrator"}
    IN  [Made(s, Call("getChatMember", chat_id, user_id, <<>>, ok)) EXCEPT !.ret = r]

\* ret: TRUE iff getChatMember answered ok with creator or administrator
is_admin(s, chat_id, user_id) ==
    LET ok == Succeeds(s)
        r  == ok /\ MemberStatus(chat_id, user_id) \in {"creator", "administrator"}
    IN  [Made(s, Call("getChatMember", chat_id, user_id, <<>>, ok)) EXCEPT !.ret = r]

IsGroupType(chat_type) == chat_type \in {"group", "supergroup"}

\* ------------------------------------------------------------------------
\* TelegramBot: handlers
\* ------------------------------------------------------------------------

handle_start(s, message) ==
    LET s1 == add_user(Enter(s, "start"), message.user_id)
    IN  IF IsGroupType(message.chat_type)
        THEN LET s2 == is_admin(s1, message.chat_id, message.user_id)
             IN  IF s2.ret \/ message.user_id = ADMIN_ID
                 THEN send_message(s2, message.chat_id, Msg("admin_group_help", <<>>), 0)
                 ELSE send_message(s2, message.chat_id, Msg("group_welcome", <<>>), 0)
        ELSE IF message.chat_type = "private"
        THEN send_message(s1, message.chat_id, Msg("welcome", <<>>), 0)
        ELSE s1

handle_admin_command(s, message) ==
    LET s0 == Enter(s, "admin_panel")
    IN  IF message.user_id # ADMIN_ID
        THEN IF message.chat_type = "private"
             THEN send_message(s0, message.chat_id, Msg("no_permission", <<>>), 0)
             ELSE s0
        ELSE IF IsGroupType(message.chat_type)
        THEN LET s1 == is_admin(s0, message.chat_id, message.user_id)
             IN  IF ~s1.ret
                 THEN send_message(s1, message.chat_id, Msg("need_group_admin", <<>>), 0)
                 ELSE send_message(s1, message.chat_id, Msg("admin_panel", <<>>), 0)
        ELSE send_message(s0, message.chat_id, Msg("admin_panel", <<>>), 0)

\* handle_complaint confirming whatever add_complaint returned
handle_complaint_unchecked(s, message) ==
    LET username == Username(message.user_id)
        s1 == add_complaint(Enter(s, "complaint"), message.user_id, message.text, username)
        complaint_id == s1.ret.id
        s2 == send_message(s1, message.chat_id, Msg("confirmation", <<complaint_id>>), 0)
    IN  send_message(s2, ADMIN_ID,
                     Msg("new_complaint",
                         <<username, message.user_id, message.text, complaint_id>>),
                     0)

\* handle_complaint notifying the admin before it confirms to the sender
handle_complaint_admin_first(s, message) ==
    LET username == Username(message.user_id)
        s1 == add_complaint(Enter(s, "complaint"), message.user_id, message.text, username)
        complaint_id == s1.ret.id
    IN  IF s1.ret.ok
        THEN LET s2 == send_message(s1, ADMIN_ID,
                                    Msg("new_complaint",
                                        <<username, message.user_id, message.text,
                                          complaint_id>>),
                                    0)
             IN  send_message(s2, message.chat_id,
                              Msg("confirmation", <<complaint_id>>), 0)
        ELSE s1

handle_complaint(s, message) ==
    LET username == Username(message.user_id)
        s1 == add_complaint(Enter(s, "complaint"), message.user_id, message.text, username)
        complaint_id == s1.ret.id
    IN  IF s1.ret.ok
        THEN LET s2 == send_message(s1, message.chat_id,
                                    Msg("confirmation", <<complaint_id>>), 0)
             IN  send_message(s2, ADMIN_ID,
                              Msg("new_complaint",
                                  <<username, message.user_id, message.text, complaint_id>>),
                              0)
        ELSE s1

\* handle_banned_word clearing the warnings before it mutes
handle_banned_word_clear_first(s, message) ==
    LET user_id == message.user_id
        s1 == delete_message(Enter(s, "banned_word"), message.chat_id, message.message_id)
        s2 == add_warning(s1, user_id, "Used banned word")
        s3 == get_user_warnings(s2, user_id)
        warning_count == s3.ret
        s4 == get_group_settings(s3)
        max_warnings == s4.ret.max_warnings
        mute_duration == s4.ret.mute_duration
    IN  IF warning_count >= max_warnings
        THEN LET s5 == clear_user_warnings(s4, user_id)
                 s6 == restrict_chat_member(s5, message.chat_id, user_id, mute_duration)
             IN  send_message(s6, message.chat_id,
                              Msg("muted", <<Username(user_id), mute_duration>>), 0)
        ELSE send_message(s4, message.chat_id,
                          Msg("warning", <<Username(user_id), warning_count, max_warnings>>),
                          0)

\* handle_banned_word muting only above max_warnings
handle_banned_word_above(s, message) ==
    LET user_id == message.user_id
        s1 == delete_message(Enter(s, "banned_word"), message.chat_id, message.message_id)
        s2 == add_warning(s1, user_id, "Used banned word")
        s3 == get_user_warnings(s2, user_id)
        warning_count == s3.ret
        s4 == get_group_settings(s3)
        max_warnings == s4.ret.max_warnings
        mute_duration == s4.ret.mute_duration
    IN  IF warning_count > max_warnings
        THEN LET s5 == restrict_chat_member(s4, message.chat_id, user_id, mute_duration)
                 s6 == send_message(s5, message.chat_id,
                                    Msg("muted", <<Username(user_id), mute_duration>>), 0)
             IN  clear_user_warnings(s6, user_id)
        ELSE send_message(s4, message.chat_id,
                          Msg("warning", <<Username(user_id), warning_count, max_warnings>>),
                          0)

handle_banned_word(s, message) ==
    LET user_id == message.user_id
        s1 == delete_message(Enter(s, "banned_word"), message.chat_id, message.message_id)
        s2 == add_warning(s1, user_id, "Used banned word")
        s3 == get_user_warnings(s2, user_id)
        warning_count == s3.ret
        s4 == get_group_settings(s3)
        max_warnings == s4.ret.max_warnings
        mute_duration == s4.ret.mute_duration
    IN  IF warning_count >= max_warnings
        THEN LET s5 == restrict_chat_member(s4, message.chat_id, user_id, mute_duration)
                 s6 == send_message(s5, message.chat_id,
                                    Msg("muted", <<Username(user_id), mute_duration>>), 0)
             IN  clear_user_warnings(s6, user_id)
        ELSE send_message(s4, message.chat_id,
                          Msg("warning", <<Username(user_id), warning_count, max_warnings>>),
                          0)

\* check_banned_words without text.lower()
check_banned_words_exact(s, text) ==
    LET s1 == get_banned_words(s)
        banned_words_read == s1.ret
    IN  [s1 EXCEPT !.ret =
            \E i \in 1..Len(banned_words_read) : Contains(text, banned_words_read[i])]

\* ret: the method's boolean
check_banned_words(s, text) ==
    LET s1 == get_banned_words(s)
        banned_words_read == s1.ret
        text_lower == Lower(text)
    IN  [s1 EXCEPT !.ret =
            \E i \in 1..Len(banned_words_read) : Contains(text_lower, banned_words_read[i])]

\* check_auto_responses answering with the last match
check_auto_responses_last(s, message) ==
    LET text == Lower(message.text)
        s1 == get_auto_responses(Enter(s, "auto_response"))
        rows == s1.ret
        hits == {i \in 1..Len(rows) : Contains(text, rows[i].trigger)}
    IN  IF hits = {}
        THEN s1
        ELSE LET last == CHOOSE i \in hits : \A j \in hits : j <= i
             IN  send_message(s1, message.chat_id,
                              Msg("auto_response", <<rows[last].response>>),
                              message.message_id)

check_auto_responses(s, message) ==
    LET text == Lower(message.text)
        s1 == get_auto_responses(Enter(s, "auto_response"))
        rows == s1.ret
        hits == {i \in 1..Len(rows) : Contains(text, rows[i].trigger)}
    IN  IF hits = {}
        THEN s1
        ELSE LET first == CHOOSE i \in hits : \A j \in hits : i <= j
             IN  send_message(s1, message.chat_id,
                              Msg("auto_response", <<rows[first].response>>),
                              message.message_id)

handle_admin_group_commands(s, message) ==
    LET text == message.text
        chat_id == message.chat_id
        s0 == Enter(s, "group_admin_command")
    IN  IF text = CMD_CLOSEGROUP
        THEN send_message(update_group_settings(s0, [is_closed |-> TRUE]),
                          chat_id, Msg("group_closed", <<>>), 0)
        ELSE IF text = CMD_OPENGROUP
        THEN send_message(update_group_settings(s0, [is_closed |-> FALSE]),
                          chat_id, Msg("group_opened", <<>>), 0)
        ELSE IF StartsWith(text, CMD_ADDBAN)
        THEN LET word == Split(text, BLANK, 1)[2]
             IN  send_message(add_banned_word(s0, word), chat_id,
                              Msg("ban_added", <<word>>), 0)
        ELSE IF StartsWith(text, CMD_REMOVEBAN)
        THEN LET word == Split(text, BLANK, 1)[2]
             IN  send_message(remove_banned_word(s0, word), chat_id,
                              Msg("ban_removed", <<word>>), 0)
        ELSE IF StartsWith(text, CMD_SETAUTODELETE)
        THEN LET minutes == ParseInt(Split(text, BLANK, 1)[2])
             IN  IF ~minutes.ok
                 THEN send_message(s0, chat_id, Msg("invalid_minutes", <<>>), 0)
                 ELSE LET s1 == update_group_settings(
                                    s0, [auto_delete_minutes |-> minutes.val])
                      IN  IF minutes.val > 0
                          THEN send_message(s1, chat_id,
                                            Msg("auto_delete_set", <<minutes.val>>), 0)
                          ELSE send_message(s1, chat_id,
                                            Msg("auto_delete_disabled", <<>>), 0)
        ELSE s0

\* lines 592-640: callback_query["data"] and callback_query["message"] are
\* subscripted before the data is looked at
handle_user_callback(s, callback_query) ==
    LET data == callback_query.data
        chat_id == callback_query.chat_id
        message_id == callback_query.message_id
    IN  IF ~callback_query.has_data \/ ~callback_query.has_message
        THEN Raise(s)
        ELSE IF data = "new_complaint"
        THEN edit_message_text(s, chat_id, message_id, Msg("write_complaint", <<>>))
        ELSE IF data = "contact_info"
        THEN edit_message_text(s, chat_id, message_id, Msg("contact_info", <<>>))
        ELSE IF data = "faq"
        THEN edit_message_text(s, chat_id, message_id, Msg("faq", <<>>))
        ELSE IF data = "back_to_menu"
        THEN edit_message_text(s, chat_id, message_id, Msg("welcome", <<>>))
        ELSE s

\* lines 642-742 (line 721 read at the indentation of its branch)
handle_admin_callback(s, callback_query) ==
    LET data == callback_query.data
        chat_id == callback_query.chat_id
        message_id == callback_query.message_id
    IN  IF ~callback_query.has_data \/ ~callback_query.has_message
        THEN Raise(s)
        ELSE IF data = "admin_statistics"
        THEN LET s1 == get_complaints_stats(s)
                 s2 == get_users_stats(s1)
                 s3 == get_auto_responses_stats(s2)
                 s4 == get_banned_words(s3)
             IN  edit_message_text(s4, chat_id, message_id,
                                   Msg("statistics",
                                       <<s1.ret, s3.ret, Len(s4.ret)>>))
        ELSE IF data = "admin_group_settings"
        THEN LET s1 == get_group_settings(s)
             IN  edit_message_text(s1, chat_id, message_id,
                                   Msg("group_settings", <<s1.ret>>))
        ELSE IF data = "admin_banned_words"
        THEN LET s1 == get_banned_words(s)
             IN  edit_message_text(s1, chat_id, message_id,
                                   Msg("banned_words", <<s1.ret>>))
        ELSE IF data = "admin_auto_responses"
        THEN LET s1 == get_auto_responses(s)
             IN  edit_message_text(s1, chat_id, message_id,
                                   Msg("auto_responses", <<s1.ret>>))
        ELSE IF data = "admin_complaints"
        THEN LET s1 == get_complaints_stats(s)
             IN  edit_message_text(s1, chat_id, message_id,
                                   Msg("complaints", <<s1.ret>>))
        ELSE IF data = "back_to_admin"
        THEN edit_message_text(s, chat_id, message_id, Msg("admin_panel", <<>>))
        ELSE s

\* handle_callback_query acknowledging after the handler has run
handle_callback_query_late(s, callback_query) ==
    LET s1 == IF callback_query.user_id = ADMIN_ID
              THEN handle_admin_callback(s, callback_query)
              ELSE handle_user_callback(s, callback_query)
    IN  answer_callback_query(s1, callback_query.id)

\* lines 579-590
handle_callback_query(s, callback_query) ==
    LET s1 == answer_callback_query(s, callback_query.id)
    IN  IF callback_query.user_id = ADMIN_ID
        THEN handle_admin_callback(s1, callback_query)
        ELSE handle_user_callback(s1, callback_query)

\* /reply answering a bad user id with a message to the admin
admin_reply_reports(s, message) ==
    LET parts == Split(message.text, BLANK, 2)
    IN  IF Len(parts) >= 3
        THEN LET target_user_id == ParseInt(parts[2])
             IN  IF ~target_user_id.ok
                 THEN send_message(s, ADMIN_ID, Msg("invalid_user_id", <<>>), 0)
                 ELSE LET s1 == send_message(s, target_user_id.val,
                                             Msg("admin_reply", <<parts[3]>>), 0)
                      IN  send_message(s1, ADMIN_ID, Msg("reply_sent", <<>>), 0)
        ELSE s

\* lines 760-767: the admin's /reply
admin_reply(s, message) ==
    LET parts == Split(message.text, BLANK, 2)
    IN  IF Len(parts) >= 3
        THEN LET target_user_id == ParseInt(parts[2])
             IN  IF ~target_user_id.ok
                 THEN Raise(s)
                 ELSE LET s1 == send_message(s, target_user_id.val,
                                             Msg("admin_reply", <<parts[3]>>), 0)
                      IN  send_message(s1, ADMIN_ID, Msg("reply_sent", <<>>), 0)
        ELSE s

\* /addresponse splitting on the bar alone
admin_addresponse_bar(s, message) ==
    LET content == Split(message.text, BLANK, 1)[2]
        pair == Split(content, <<"|">>, 1)
    IN  IF Len(pair) = 2
        THEN send_message(add_auto_response(s, Strip(pair[1]), Strip(pair[2])),
                          message.chat_id, Msg("response_added", <<pair[1]>>), 0)
        ELSE send_message(s, message.chat_id, Msg("addresponse_format", <<>>), 0)

\* lines 776-783: the admin's /addresponse
admin_addresponse(s, message) ==
    LET content == Split(message.text, BLANK, 1)[2]
        pair == Split(content, SEPARATOR, 1)
    IN  IF Len(pair) = 2
        THEN send_message(add_auto_response(s, Strip(pair[1]), Strip(pair[2])),
                          message.chat_id, Msg("response_added", <<pair[1]>>), 0)
        ELSE send_message(s, message.chat_id, Msg("addresponse_format", <<>>), 0)

\* lines 759-785: a message in a private chat
route_private(s, message) ==
    LET text == message.text
        admin == message.user_id = ADMIN_ID
        s0 == Enter(s, "private_admin_command")
    IN  IF admin /\ StartsWith(text, CMD_REPLY)
        THEN admin_reply(s0, message)
        ELSE IF admin /\ StartsWith(text, CMD_ADDBAN)
        THEN LET word == Split(text, BLANK, 1)[2]
             IN  send_message(add_banned_word(s0, word), message.chat_id,
                              Msg("ban_added", <<word>>), 0)
        ELSE IF admin /\ StartsWith(text, CMD_REMOVEBAN)
        THEN LET word == Split(text, BLANK, 1)[2]
             IN  send_message(remove_banned_word(s0, word), message.chat_id,
                              Msg("ban_removed", <<word>>), 0)
        ELSE IF admin /\ StartsWith(text, CMD_ADDRESPONSE)
        THEN admin_addresponse(s0, message)
        ELSE handle_complaint(s, message)

\* line 826: the seconds auto_delete_warning sleeps
WARNING_DELAY == 5

\* closed_group leaving the notice to the tracker alone (no 5-second task)
closed_group_tracked_only(s, message) ==
    LET s1 == delete_message(Enter(s, "closed_group"), message.chat_id,
                             message.message_id)
    IN  send_message(s1, message.chat_id, Msg("closed_notice", <<>>), 0)

\* lines 791-798: the group is closed to the sender
closed_group(s, message) ==
    LET s1 == delete_message(Enter(s, "closed_group"), message.chat_id,
                             message.message_id)
        s2 == send_message(s1, message.chat_id, Msg("closed_notice", <<>>), 0)
        warning_msg == s2.ret
    IN  IF warning_msg.ok
        THEN [s2 EXCEPT !.tasks = @ \cup {Task("warning", message.chat_id,
                                               warning_msg.message_id,
                                               WARNING_DELAY)}]
        ELSE s2

\* moderate without the return of line 802
moderate_both(s, message) ==
    LET s1 == get_group_settings(s)
    IN  IF s1.ret.is_closed
        THEN closed_group(s1, message)
        ELSE LET s2 == check_banned_words(s1, message.text)
                 s3 == IF s2.ret THEN handle_banned_word(s2, message) ELSE s2
             IN  check_auto_responses(s3, message)

\* moderate without the return of line 798
moderate_no_return(s, message) ==
    LET s1 == get_group_settings(s)
        s2 == IF s1.ret.is_closed THEN closed_group(s1, message) ELSE s1
        s3 == check_banned_words(s2, message.text)
    IN  IF s3.ret
        THEN handle_banned_word(s3, message)
        ELSE check_auto_responses(s3, message)

\* lines 790-804: a message of a non-admin in the support group
moderate(s, message) ==
    LET s1 == get_group_settings(s)
    IN  IF s1.ret.is_closed
        THEN closed_group(s1, message)
        ELSE LET s2 == check_banned_words(s1, message.text)
             IN  IF s2.ret
                 THEN handle_banned_word(s2, message)
                 ELSE check_auto_responses(s2, message)

\* lines 786-804: a message in the support group
route_support_group(s, message) ==
    IF message.user_id = ADMIN_ID
    THEN handle_admin_group_commands(s, message)
    ELSE LET s1 == is_admin(s, message.chat_id, message.user_id)
         IN  IF s1.ret
             THEN handle_admin_group_commands(s1, message)
             ELSE moderate(s1, message)

\* the other-group rule without the test of the sender
route_other_group_open(s, message) ==
    handle_admin_group_commands(s, message)

\* lines 805-815: a message in another group (the /start and /admin tests
\* of lines 807-812 are dead: lines 755-758 took those messages)
route_other_group(s, message) ==
    IF message.user_id = ADMIN_ID
    THEN handle_admin_group_commands(s, message)
    ELSE LET s1 == is_admin(s, message.chat_id, message.user_id)
         IN  IF s1.ret THEN handle_admin_group_commands(s1, message) ELSE s1

\* lines 747-815
process_message(s, message) ==
    IF ~message.has_from
    THEN Raise(s)
    ELSE IF StartsWith(message.text, CMD_START)
    THEN handle_start(s, message)
    ELSE IF StartsWith(message.text, CMD_ADMIN)
    THEN handle_admin_command(s, message)
    ELSE IF message.chat_type = "private"
    THEN route_private(s, message)
    ELSE IF message.chat_id = GROUP_ID
    THEN route_support_group(s, message)
    ELSE IF IsGroupType(message.chat_type)
    THEN route_other_group(s, message)
    ELSE s

process_update(s, u) ==
    IF u.kind = "message" THEN process_message(s, u)
    ELSE IF u.kind = "callback_query" THEN handle_callback_query(s, u)
    ELSE s

\* ------------------------------------------------------------------------
\* Inbound updates
\* ------------------------------------------------------------------------

Message(text, chat_type, chat_id, user_id) ==
    [kind |-> "message", text |-> text, chat_type |-> chat_type,
     chat_id |-> chat_id, user_id |-> user_id, message_id |-> InboundId,
     has_from |-> TRUE]

PrivateMessages(texts, users) ==
    {Message(t, "private", u, u) : t \in texts, u \in users}

GroupMessages(texts, users) ==
    {Message(t, "supergroup", GROUP_ID, u) : t \in texts, u \in users}

OtherGroupMessages(texts, users) ==
    {Message(t, "group", OTHER_GROUP, u) : t \in texts, u \in users}

\* the fields the handlers read of update["callback_query"]: its id, the
\* presser, the data, and the chat and id of the message the keyboard is on
\* (data and message may be absent from a callback query)
CallbackQuery(id, user_id, data, has_data, has_message) ==
    [kind |-> "callback_query", id |-> id, user_id |-> user_id, data |-> data,
     has_data |-> has_data, has_message |-> has_message,
     chat_id |-> user_id, message_id |-> InboundId]

\* the callback data handle_user_callback and handle_admin_callback have a
\* branch for, and the main menu's "check_status" (line 366), which has none
UserData == {"new_complaint", "contact_info", "faq", "back_to_menu"}
AdminData ==
    {"admin_statistics", "admin_group_settings", "admin_banned_words",
     "admin_auto_responses", "admin_complaints", "back_to_admin"}
UnknownData == "check_status"

CallbackIds == {"q1", "q2"}

\* a message that carries no "from" (line 751 subscripts it)
Anonymous(message) == [message EXCEPT !.has_from = FALSE]

\* ------------------------------------------------------------------------
\* Outcomes of an update's calls: the sets of failing call ordinals, at
\* most MaxFaults of them, each the ordinal of a call the handling makes
\* ------------------------------------------------------------------------

MaxOf(o) == IF o = {} THEN 0 ELSE CHOOSE x \in o : \A y \in o : y <= x

RECURSIVE FaultSets(_, _)
FaultSets(u, n) ==
    IF n = 0 THEN {{}}
    ELSE LET F == FaultSets(u, n - 1)
         IN  F \cup UNION {
                 {o \cup {f} : f \in (MaxOf(o) + 1)..process_update(Start(o), u).k}
                 : o \in {x \in F : Cardinality(x) = n - 1}}

\* ------------------------------------------------------------------------
\* Actions
\* ------------------------------------------------------------------------

WithinBounds(r) ==
    /\ Cardinality({t.message_id : t \in r.tasks}) <= MaxMsgs
    /\ Len(r.complaints) <= MaxComplaints
    /\ Len(r.banned_words) <= MaxWords
    /\ Len(r.auto_responses) <= MaxResponses
    /\ \A u \in Users : r.user_warnings[u] <= MaxWarnRows

\* lines 834-841: the webhook hands the update to process_update, which
\* runs to its end
Webhook(u) ==
    /\ update = NoUpdate
    /\ \E o \in FaultSets(u, MaxFaults) :
        \E r \in {process_update(Start(o), u)} :
            /\ WithinBounds(r)
            /\ complaints' = r.complaints
            /\ banned_words' = r.banned_words
            /\ auto_responses' = r.auto_responses
            /\ user_warnings' = r.user_warnings
            /\ group_settings' = r.group_settings
            /\ bot_messages' = r.bot_messages
            /\ tasks' = r.tasks
            /\ update' = u
            /\ calls' = r.calls
            /\ paths' = r.paths
            /\ raised' = r.raised
    /\ UNCHANGED running

\* line 841, and the end of a timer's task: the handling has returned; the
\* update and what was observed of its handling are dropped
Finish ==
    /\ update # NoUpdate
    /\ update' = NoUpdate
    /\ calls' = <<>>
    /\ paths' = <<>>
    /\ raised' = FALSE
    /\ UNCHANGED <<store, tracker, running>>

\* the wake-up of task t, in the place of an update
Timer(t) == [kind |-> "timer", task |-> t]

\* schedule_message_deletion keeping the entry when deleteMessage failed
schedule_message_deletion_keep(t) ==
    /\ t \in tasks
    /\ t.kind = "auto"
    /\ \E ok \in BOOLEAN :
          /\ calls' = <<Call("deleteMessage", t.chat_id, t.message_id, <<>>, ok)>>
          /\ bot_messages' =
                IF ok
                THEN [bot_messages EXCEPT ![t.chat_id] =
                          SelectSeq(@, LAMBDA id : id # t.message_id)]
                ELSE bot_messages
    /\ update' = Timer(t)
    /\ paths' = <<>>
    /\ raised' = FALSE
    /\ tasks' = tasks \ {t}
    /\ UNCHANGED <<store, running>>

\* lines 346-358: a tracker timer ends its sleep, issues deleteMessage,
\* which may fail (delete_message returns what send_request returns and
\* raises nothing), and drops the entry. Handlers run to their end here, so
\* a timer's step falls after the handling under way, whose observations it
\* replaces by its own
schedule_message_deletion(t) ==
    /\ t \in tasks
    /\ t.kind = "auto"
    /\ \E ok \in BOOLEAN :
          calls' = <<Call("deleteMessage", t.chat_id, t.message_id, <<>>, ok)>>
    /\ update' = Timer(t)
    /\ paths' = <<>>
    /\ raised' = FALSE
    /\ bot_messages' = [bot_messages EXCEPT ![t.chat_id] =
                            SelectSeq(@, LAMBDA id : id # t.message_id)]
    /\ tasks' = tasks \ {t}
    /\ UNCHANGED <<store, running>>

\* lines 823-829: the closed-group notice's timer ends its sleep
auto_delete_warning(t) ==
    /\ t \in tasks
    /\ t.kind = "warning"
    /\ \E ok \in BOOLEAN :
          calls' = <<Call("deleteMessage", t.chat_id, t.message_id, <<>>, ok)>>
    /\ update' = Timer(t)
    /\ paths' = <<>>
    /\ raised' = FALSE
    /\ tasks' = tasks \ {t}
    /\ UNCHANGED <<store, bot_messages, running>>

\* ------------------------------------------------------------------------
\* Handlers under way at once.  Every method of Database and every request
\* to the platform is awaited by its caller; a handler is taken here from
\* one awaited call to the next, and between two calls of one handler the
\* calls of another may fall.  (Within one event loop the platform requests
\* suspend a handler and the Store client's execute() does not; between
\* workers that share the Store every call is such a point.)
\* ------------------------------------------------------------------------

\* a handler and its locals: the message, the count and the settings it
\* read or the columns it writes, whether its select found a row, its reply
Handler(pc, message, settings, reply) ==
    [pc |-> pc, message |-> message, warning_count |-> 0, settings |-> settings,
     existing |-> FALSE, reply |-> reply]

\* line 503 testing for more than max_warnings
Escalates_above(warning_count, settings) == warning_count > settings.max_warnings

\* line 503
Escalates(warning_count, settings) == warning_count >= settings.max_warnings

At(s, r, pc) == [s |-> s, r |-> [r EXCEPT !.pc = pc]]

\* lines 490-517, from one call to the next
handle_banned_word_step(s, r) ==
    LET m == r.message
        user_id == m.user_id
    IN  CASE r.pc = "delete_message" ->
                At(delete_message(s, m.chat_id, m.message_id), r, "add_warning")
          [] r.pc = "add_warning" ->
                At(add_warning(s, user_id, "Used banned word"), r, "get_user_warnings")
          [] r.pc = "get_user_warnings" ->
                LET s1 == get_user_warnings(s, user_id)
                IN  At(s1, [r EXCEPT !.warning_count = s1.ret], "get_group_settings")
          [] r.pc = "get_group_settings" ->
                LET s1 == get_group_settings(s)
                IN  At(s1, [r EXCEPT !.settings = s1.ret],
                       IF Escalates(r.warning_count, s1.ret)
                       THEN "restrict_chat_member" ELSE "send_warning")
          [] r.pc = "restrict_chat_member" ->
                At(restrict_chat_member(s, m.chat_id, user_id, r.settings.mute_duration),
                   r, "send_muted")
          [] r.pc = "send_muted" ->
                At(send_message(s, m.chat_id,
                                Msg("muted", <<Username(user_id), r.settings.mute_duration>>),
                                0),
                   r, "clear_user_warnings")
          [] r.pc = "clear_user_warnings" ->
                [s |-> clear_user_warnings(s, user_id), r |-> Idle]
          [] r.pc = "send_warning" ->
                [s |-> send_message(s, m.chat_id,
                                    Msg("warning", <<Username(user_id), r.warning_count,
                                                     r.settings.max_warnings>>),
                                    0),
                 r |-> Idle]

\* lines 545-577 with update_group_settings (lines 202-217) from one call
\* to the next: the select and the write of the settings, or the insert of
\* the banned word, and then the command's reply; an exception of the
\* select ends update_group_settings before its write
handle_admin_group_commands_step(s, r) ==
    CASE r.pc = "add_banned_word" ->
            At(add_banned_word(s, r.settings.word), r, "reply")
      [] r.pc = "select" ->
            LET ok == Succeeds(s)
                s1 == Made(s, Call("select_group_settings", 0, 0, <<>>, ok))
            IN  At(s1, [r EXCEPT !.existing = Len(s.group_settings) > 0],
                   IF ok THEN "write" ELSE "reply")
      [] r.pc = "write" ->
            LET ok == Succeeds(s)
                s1 == Made(s, Call("update_group_settings", 0, 0, r.settings, ok))
            IN  At(IF ~ok THEN s1
                   ELSE IF r.existing
                   THEN [s1 EXCEPT !.group_settings[1] = Updated(@, r.settings)]
                   ELSE [s1 EXCEPT !.group_settings = Append(@, NewRow(r.settings))],
                   r, "reply")
      [] r.pc = "reply" ->
            [s |-> send_message(s, r.message.chat_id, r.reply, 0), r |-> Idle]

CommandPcs == {"add_banned_word", "select", "write", "reply"}

\* lines 834-841 and 747-804: a worker takes an update and routes it; the
\* handler the router calls is then under way
Accept(w, u) ==
    /\ running[w] = Idle
    /\ \E routed \in {process_update(Start({}), u)} :
       LET writes == {i \in 1..Len(routed.calls) :
                         routed.calls[i].op = "update_group_settings"}
           words  == {i \in 1..Len(routed.calls) :
                         routed.calls[i].op = "add_banned_word"}
           sends  == {i \in 1..Len(routed.calls) : routed.calls[i].op = "sendMessage"}
       IN  \/ /\ routed.paths = <<"banned_word">>
              /\ running' = [running EXCEPT ![w] =
                    Handler("delete_message", u, DefaultSettings, <<>>)]
           \/ /\ routed.paths = <<"group_admin_command">>
              /\ \E j \in sends :
                    \/ \E i \in writes :
                          running' = [running EXCEPT ![w] =
                              Handler("select", u, routed.calls[i].val,
                                      routed.calls[j].val.text)]
                    \/ \E i \in words :
                          running' = [running EXCEPT ![w] =
                              Handler("add_banned_word", u,
                                      [word |-> routed.calls[i].val],
                                      routed.calls[j].val.text)]
    /\ UNCHANGED <<store, tracker, request>>

\* the handler of worker w makes its next call, which may fail (as may the
\* tracker's read after a send)
Resume(w) ==
    /\ running[w] # Idle
    /\ \E o \in SUBSET {1, 2} :
        \E out \in {IF running[w].pc \in CommandPcs
                    THEN handle_admin_group_commands_step(Start(o), running[w])
                    ELSE handle_banned_word_step(Start(o), running[w])} :
            /\ o \subseteq 1..out.s.k
            /\ WithinBounds(out.s)
            /\ complaints' = out.s.complaints
            /\ banned_words' = out.s.banned_words
            /\ auto_responses' = out.s.auto_responses
            /\ user_warnings' = out.s.user_warnings
            /\ group_settings' = out.s.group_settings
            /\ bot_messages' = out.s.bot_messages
            /\ tasks' = out.s.tasks
            /\ running' = [running EXCEPT ![w] = out.r]
    /\ UNCHANGED request

Init ==
    /\ complaints = <<>>
    /\ banned_words = <<>>
    /\ auto_responses = <<>>
    /\ user_warnings = [u \in Users |-> 0]
    /\ group_settings = <<>>
    /\ bot_messages = [c \in Chats |-> <<>>]
    /\ tasks = {}
    /\ update = NoUpdate
    /\ calls = <<>>
    /\ paths = <<>>
    /\ raised = FALSE
    /\ running = [w \in Workers |-> Idle]

\* ------------------------------------------------------------------------
\* Specifications.  Each delivers the updates of one part of the bot, so
\* that the tables the part does not touch stay empty.
\* ------------------------------------------------------------------------

\* Routing and complaints: one text of every class the router tells apart,
\* from every kind of sender, in the three kinds of chat
RouteUpdates ==
    PrivateMessages({T_start, T_admin, T_reply_ok, T_addban}, {ADMIN_ID})
      \cup PrivateMessages({T_start, T_admin, T_late}, {USER})
      \cup GroupMessages({T_closegroup, T_start}, {ADMIN_ID})
      \cup GroupMessages({T_start, T_admin, T_bad_hi, T_ok}, {USER})
      \cup GroupMessages({T_addban, T_ok}, {CHAT_ADMIN})
      \cup OtherGroupMessages({T_ok, T_closegroup}, {USER})
      \cup OtherGroupMessages({T_closegroup}, {CHAT_ADMIN})
      \cup OtherGroupMessages({T_admin}, {ADMIN_ID})

Next ==
    \/ \E u \in RouteUpdates : Webhook(u)
    \/ Finish
    \/ \E t \in tasks : auto_delete_warning(t)

Spec == Init /\ [][Next]_vars

\* Group settings, the closed group and auto-delete
SettingsUpdates ==
    GroupMessages({T_closegroup, T_opengroup, T_setautodelete2, T_setautodelete0},
                  {ADMIN_ID})
      \cup GroupMessages({T_ok, T_start}, {USER})
      \cup GroupMessages({T_ok}, {CHAT_ADMIN})

SettingsNext ==
    \/ \E u \in SettingsUpdates : Webhook(u)
    \/ Finish
    \/ \E t \in tasks : schedule_message_deletion(t)
    \/ \E t \in tasks : auto_delete_warning(t)

SettingsSpec == Init /\ [][SettingsNext]_vars

\* asyncio wakes every sleeping task when its delay is over: the tasks a
\* run of SettingsSpec can start each take their step
PossibleTasks ==
    {Task("auto", GROUP_ID, id, 2 * 60) : id \in MessageIds}
      \cup {Task("warning", GROUP_ID, id, WARNING_DELAY) : id \in MessageIds}

FairSettingsSpec ==
    /\ SettingsSpec
    /\ \A t \in PossibleTasks :
          /\ WF_vars(schedule_message_deletion(t))
          /\ WF_vars(auto_delete_warning(t))

\* Banned words, warnings and auto-responses
ModerationUpdates ==
    GroupMessages({T_addban, T_removeban}, {ADMIN_ID})
      \cup PrivateMessages({T_addresponse, T_addresponse2, T_addresponse_nosep},
                           {ADMIN_ID})
      \cup GroupMessages({T_bad_hi, T_hi, T_ok, T_start_bad_hi}, {USER})

ModerationNext ==
    \/ \E u \in ModerationUpdates : Webhook(u)
    \/ Finish

ModerationSpec == Init /\ [][ModerationNext]_vars

\* Callback queries of both keyboards, with the private messages that fill
\* the tables the admin panel reads
CallbackUpdates ==
    {CallbackQuery(id, ADMIN_ID, d, TRUE, TRUE) :
        id \in CallbackIds, d \in AdminData \cup {"faq", UnknownData}}
      \cup {CallbackQuery(id, USER, d, TRUE, TRUE) :
              id \in CallbackIds, d \in UserData \cup {"admin_statistics", UnknownData}}
      \cup {CallbackQuery("q1", u, "", FALSE, TRUE) : u \in {ADMIN_ID, USER}}
      \cup {CallbackQuery("q1", u, "faq", TRUE, FALSE) : u \in {ADMIN_ID, USER}}
      \cup PrivateMessages({T_late}, {USER})
      \cup PrivateMessages({T_addban, T_addresponse}, {ADMIN_ID})

CallbackNext ==
    \/ \E u \in CallbackUpdates : Webhook(u)
    \/ Finish

CallbackSpec == Init /\ [][CallbackNext]_vars

\* Private chats: the admin's /reply in its forms, the admin's and a user's
\* free text, a message without sender, a callback query without data, and
\* a user's text in the support group
PrivateUpdates ==
    PrivateMessages({T_reply_ok, T_reply_short, T_reply_nan, T_reply_bare, T_ok, T_addban},
                    {ADMIN_ID})
      \cup PrivateMessages({T_late, T_reply_short}, {USER})
      \cup GroupMessages({T_late}, {USER})
      \cup {Anonymous(Message(T_ok, "channel", OTHER_GROUP, USER))}
      \cup {CallbackQuery("q1", USER, "", FALSE, TRUE)}

PrivateNext ==
    \/ \E u \in PrivateUpdates : Webhook(u)
    \/ Finish

PrivateSpec == Init /\ [][PrivateNext]_vars

\* Group-admin commands in a group other than the support group, from the
\* three kinds of sender, and the admin's commands in the support group
OtherGroupUpdates ==
    OtherGroupMessages({T_closegroup, T_opengroup, T_addban, T_removeban,
                        T_setautodelete2},
                       {USER, CHAT_ADMIN, ADMIN_ID})
      \cup GroupMessages({T_addban, T_opengroup, T_setautodelete_neg,
                          T_setautodelete_nan},
                         {ADMIN_ID})

OtherGroupNext ==
    \/ \E u \in OtherGroupUpdates : Webhook(u)
    \/ Finish
    \/ \E t \in tasks : schedule_message_deletion(t)

OtherGroupSpec == Init /\ [][OtherGroupNext]_vars

\* The commands that write the tables, from the admin and from senders
\* that are no admin, in the three kinds of chat, and a user's press of an
\* admin-panel button
AdminOnlyUpdates ==
    PrivateMessages({T_addban, T_removeban, T_addresponse}, {USER})
      \cup PrivateMessages({T_addban}, {ADMIN_ID})
      \cup GroupMessages({T_removeban}, {CHAT_ADMIN})
      \cup OtherGroupMessages({T_closegroup}, {USER, CHAT_ADMIN})
      \cup {CallbackQuery("q1", USER, "admin_banned_words", TRUE, TRUE)}

AdminOnlyNext ==
    \/ \E u \in AdminOnlyUpdates : Webhook(u)
    \/ Finish

AdminOnlySpec == Init /\ [][AdminOnlyNext]_vars

\* Violations of one user and the admin's commands, taken by two workers
\* that run at once
ConcurrentUpdates ==
    GroupMessages({T_bad_hi}, {USER})
      \cup GroupMessages({T_addban, T_opengroup, T_setautodelete0}, {ADMIN_ID})

ConcurrentNext ==
    \/ \E w \in Workers, u \in ConcurrentUpdates : Accept(w, u)
    \/ \E w \in Workers : Resume(w)

ConcurrentSpec == Init /\ [][ConcurrentNext]_vars

\* ------------------------------------------------------------------------
\* What a state shows of the handling that just ended
\* ------------------------------------------------------------------------

IsMessage == update.kind = "message"

CallsOf(op) == {i \in 1..Len(calls) : calls[i].op = op}

\* the calls of the given operations, in the order they were made
Only(ops) == SelectSeq(calls, LAMBDA c : c.op \in ops)

\* a getChatMember call of this handling answered creator or administrator
Verified ==
    \E i \in CallsOf("getChatMember") :
        /\ calls[i].ok
        /\ MemberStatus(calls[i].chat, calls[i].id) \in {"creator", "administrator"}

IsAdminSender == update.user_id = ADMIN_ID \/ Verified

HasPrefix(prefixes) == \E p \in prefixes : StartsWith(update.text, p)

\* no call of the handling failed
NoFault == \A i \in 1..Len(calls) : calls[i].ok

\* ------------------------------------------------------------------------
\* C1
\* ------------------------------------------------------------------------

\* the handler paths the first matching rule of the router allows
ExpectedPaths ==
    IF ~update.has_from THEN {<<>>}
    ELSE IF StartsWith(update.text, CMD_START) THEN {<<"start">>}
    ELSE IF StartsWith(update.text, CMD_ADMIN) THEN {<<"admin_panel">>}
    ELSE IF update.chat_type = "private"
    THEN IF /\ update.user_id = ADMIN_ID
            /\ HasPrefix({CMD_REPLY, CMD_ADDBAN, CMD_REMOVEBAN, CMD_ADDRESPONSE})
         THEN {<<"private_admin_command">>}
         ELSE {<<"complaint">>}
    ELSE IF update.chat_id = GROUP_ID
    THEN IF IsAdminSender
         THEN {<<"group_admin_command">>}
         ELSE {<<"closed_group">>, <<"banned_word">>, <<"auto_response">>}
    ELSE IF IsGroupType(update.chat_type) /\ IsAdminSender
    THEN {<<"group_admin_command">>}
    ELSE {<<>>}

\* C1 (as amended): every Message update is dispatched to at most one
\* handler path, the one of the first matching rule in the order /start,
\* /admin, private chat, support group, other group; to none exactly when
\* the message is outside a private chat and the support group and its
\* sender is not an admin of the group (or the update names no sender).
C1_AtMostOnePathFirstMatch == IsMessage => paths \in ExpectedPaths

\* C1 (as stated): every Message update is dispatched to exactly one path
C1_ExactlyOnePath == IsMessage => Len(paths) = 1 /\ paths \in ExpectedPaths

\* a non-admin's message in the closed support group took the
\* closed-group path alone
C1_Witness ==
    /\ IsMessage
    /\ update.chat_id = GROUP_ID
    /\ paths = <<"closed_group">>

\* ------------------------------------------------------------------------
\* C10
\* ------------------------------------------------------------------------

ComplaintCase ==
    /\ IsMessage
    /\ update.has_from
    /\ update.chat_type = "private"
    /\ update.user_id # ADMIN_ID
    /\ ~HasPrefix({CMD_START, CMD_ADMIN})

InsertedComplaint == \E i \in CallsOf("add_complaint") : calls[i].ok

\* C10: a non-admin's private text whose insert succeeds makes, in this
\* order, one Complaint insert (status pending, the sender, the verbatim
\* text), one confirmation to the sender carrying the id the Store gave
\* the row, and one notification to the configured admin carrying that
\* id, the sender's id and username and the verbatim text; the row is the
\* newest of the table and no other row was inserted.
C10_ComplaintThenConfirmThenNotify ==
    (ComplaintCase /\ InsertedComplaint) =>
        LET v   == Only({"add_complaint", "sendMessage"})
            row == v[1].val
        IN  /\ Len(v) = 3
            /\ v[1].op = "add_complaint"
            /\ row.status = "pending"
            /\ row.user_id = update.user_id
            /\ row.message = update.text
            /\ row.id = Len(complaints)
            /\ complaints[Len(complaints)] = row
            /\ \A i \in 1..Len(complaints) : complaints[i].id = i
            /\ v[2].op = "sendMessage"
            /\ v[2].chat = update.chat_id
            /\ v[2].val.text = Msg("confirmation", <<row.id>>)
            /\ v[3].op = "sendMessage"
            /\ v[3].chat = ADMIN_ID
            /\ v[3].val.text =
                  Msg("new_complaint",
                      <<Username(update.user_id), update.user_id, update.text, row.id>>)

\* a second complaint was stored and both messages were delivered
C10_Witness ==
    /\ ComplaintCase
    /\ InsertedComplaint
    /\ Len(complaints) = 2
    /\ \A i \in CallsOf("sendMessage") : calls[i].ok

\* ------------------------------------------------------------------------
\* C2
\* ------------------------------------------------------------------------

\* the GroupSettings in force: the stored row, or the defaults
StoredSettings ==
    IF Len(group_settings) > 0 THEN group_settings[1] ELSE DefaultSettings

NonAdminInGroup ==
    /\ IsMessage
    /\ update.has_from
    /\ update.chat_id = GROUP_ID
    /\ ~IsAdminSender

\* the first settings read of the handling (the router's, line 791)
\* returned a closed group
RouterReadClosed ==
    \E i \in CallsOf("get_group_settings") :
        /\ \A j \in CallsOf("get_group_settings") : i <= j
        /\ calls[i].val.is_closed

\* the message is deleted, the notice sent, the notice's deletion due after
\* WARNING_DELAY seconds if it was sent, and nothing else done
ClosedGroupRejection ==
    LET v == Only({"deleteMessage", "sendMessage", "add_warning", "restrictChatMember"})
    IN  /\ paths = <<"closed_group">>
        /\ Len(v) = 2
        /\ v[1] = Call("deleteMessage", GROUP_ID, update.message_id, <<>>, TRUE)
        /\ v[2].op = "sendMessage"
        /\ v[2].chat = GROUP_ID
        /\ v[2].val.text = Msg("closed_notice", <<>>)
        /\ v[2].ok => Task("warning", GROUP_ID, v[2].id, WARNING_DELAY) \in tasks
        /\ ~v[2].ok => \A t \in tasks : t.kind = "warning" => t.message_id # v[2].id

\* C2 (as amended): when the router's settings read returns isClosed for a
\* message in the support group that starts with neither /start nor /admin
\* and whose sender is neither the configured admin nor a verified chat
\* admin, the bot deletes the message, sends the closed-group notice and,
\* if that send succeeded, schedules the notice's deletion after 5 seconds
\* whatever autoDeleteMinutes is; it records no Warning and sends no
\* auto-response.
C2_ClosedGroupRejects ==
    (NonAdminInGroup /\ ~HasPrefix({CMD_START, CMD_ADMIN}) /\ RouterReadClosed)
        => ClosedGroupRejection

\* C2 (as stated): whenever the stored GroupSettings is closed, any message
\* of such a sender in the support group is rejected that way (here even
\* with no call of the handling failing)
C2_AnyMessageRejected ==
    (NonAdminInGroup /\ StoredSettings.is_closed /\ NoFault) => ClosedGroupRejection

\* a rejected message whose notice was sent while auto-delete is on: the
\* notice has its 5-second task
C2_Witness ==
    /\ NonAdminInGroup
    /\ RouterReadClosed
    /\ StoredSettings.auto_delete_minutes > 0
    /\ \E t \in tasks : t.kind = "warning" /\ t.delay = WARNING_DELAY
    /\ \E i \in CallsOf("sendMessage") : calls[i].ok

\* ------------------------------------------------------------------------
\* C7
\* ------------------------------------------------------------------------

WroteSettings(c) ==
    \E i \in 1..Len(c) : c[i].op = "update_group_settings" /\ c[i].ok

ReadOrWroteSettings ==
    \E i \in 1..Len(calls) :
        calls[i].op \in {"get_group_settings", "update_group_settings"}

C8_DefaultsWhenAbsentOrFailed ==
    \A i \in CallsOf("get_group_settings") :
        (~calls[i].ok \/ calls[i].id = 0) =>
            /\ calls[i].val = [is_closed |-> FALSE, max_warnings |-> 3,
                               mute_duration |-> 60, auto_delete_minutes |-> 0]
            /\ ~raised

\* a failed read while the stored record is closed with auto-delete on
C8_Witness ==
    /\ \E i \in CallsOf("get_group_settings") : ~calls[i].ok
    /\ Len(group_settings) = 1
    /\ group_settings[1].is_closed
    /\ group_settings[1].auto_delete_minutes = 2

\* ------------------------------------------------------------------------
\* C9
\* ------------------------------------------------------------------------

\* the tracker's settings read that follows the successful send calls[i]
TrackerReadOk(i) ==
    /\ i + 1 <= Len(calls)
    /\ calls[i + 1].op = "get_group_settings"
    /\ calls[i + 1].ok

AutoTasksOf(id) == {t \in tasks : t.kind = "auto" /\ t.message_id = id}

\* a successful send while autoDeleteMinutes is m > 0 has its deletion due
\* after m minutes, and one while it is 0 (or less) has none from the tracker
C9_SendSchedules(needs_read) ==
    IsMessage =>
        \A i \in CallsOf("sendMessage") :
            LET m == StoredSettings.auto_delete_minutes
            IN  calls[i].ok =>
                  /\ (m > 0 /\ (needs_read => TrackerReadOk(i))) =>
                        /\ AutoTasksOf(calls[i].id)
                              = {Task("auto", calls[i].chat, calls[i].id, m * 60)}
                        /\ \E k \in 1..Len(bot_messages[calls[i].chat]) :
                              bot_messages[calls[i].chat][k] = calls[i].id
                  /\ m <= 0 => AutoTasksOf(calls[i].id) = {}

\* a task leaves `tasks` only by its own wake-up
C9_NoCancel == \A t \in tasks : t \in tasks' \/ update' = Timer(t)

\* a wake-up issues the task's deleteMessage
C9_WakeUpDeletes ==
    update.kind = "timer" =>
        \E ok \in BOOLEAN :
            calls = <<Call("deleteMessage", update.task.chat_id,
                           update.task.message_id, <<>>, ok)>>

\* C9 (as amended): once /setautodelete m with m > 0 is applied, every
\* later successful sendMessage whose tracker read of the settings succeeds
\* schedules the sent message's deleteMessage after m minutes; a later
\* /setautodelete 0 cancels no scheduled deletion, each of which still
\* eventually issues its deleteMessage call; sends made after the disable
\* get no deletion from the tracker (the closed-group notice keeps its
\* 5-second one).
C9_AutoDeleteSchedules ==
    /\ [](C9_SendSchedules(TRUE) /\ C9_WakeUpDeletes)
    /\ [][C9_NoCancel]_vars
    /\ \A t \in PossibleTasks : (t \in tasks) ~> (update = Timer(t))

\* C9 (as stated): every successful send while autoDeleteMinutes is m > 0
\* schedules the deletion, and a send while it is 0 schedules nothing (here
\* even with no call of the handling failing)
C9_EverySendSchedules ==
    (IsMessage /\ NoFault) =>
        /\ C9_SendSchedules(FALSE)
        /\ \A i \in CallsOf("sendMessage") :
              StoredSettings.auto_delete_minutes = 0 =>
                  \A t \in tasks : t.message_id # calls[i].id

\* auto-delete was disabled, a message was sent and not tracked, and a
\* deletion scheduled before the disable is still pending
C9_Witness ==
    /\ IsMessage
    /\ Len(group_settings) = 1
    /\ group_settings[1].auto_delete_minutes = 0
    /\ \E i \in CallsOf("sendMessage") :
          /\ calls[i].ok
          /\ TrackerReadOk(i)
          /\ AutoTasksOf(calls[i].id) = {}
    /\ \E t \in tasks : t.kind = "auto" /\ t.delay = 2 * 60

\* ------------------------------------------------------------------------
\* C3
\* ------------------------------------------------------------------------

Took(path) == \E i \in 1..Len(paths) : paths[i] = path

WarningOps == {"add_warning", "get_user_warnings", "clear_user_warnings"}

\* every call of the handling to the warnings table succeeded
WarningStoreOk == \A i \in 1..Len(calls) : calls[i].op \in WarningOps => calls[i].ok

Restricted(chat_id, user_id) ==
    \E i \in CallsOf("restrictChatMember") :
        calls[i].chat = chat_id /\ calls[i].id = user_id

\* the handling of one violation: the count goes up by one, and at
\* maxWarnings or more the user is restricted and the count reset
C3_Violation(needs_store) ==
    LET u   == update'.user_id
        n   == user_warnings[u] + 1
        max == StoredSettings'.max_warnings
    IN  (update'.kind = "message" /\ Took("banned_word")'
           /\ (needs_store => WarningStoreOk'))
          => /\ \A v \in Users \ {u} : user_warnings'[v] = user_warnings[v]
             /\ IF n >= max
                THEN Restricted(update.chat_id, update.user_id)' /\ user_warnings'[u] = 0
                ELSE CallsOf("restrictChatMember")' = {} /\ user_warnings'[u] = n

\* nothing but a violation changes the counts
C3_OnlyViolationsCount ==
    (update'.kind = "message" /\ ~Took("banned_word")') => user_warnings' = user_warnings

CaseInsensitiveHit(text, words) ==
    \E k \in 1..Len(words) : Contains(Lower(text), Lower(words[k]))

\* C4: check_banned_words(T) is true (the router takes the banned-word
\* path) iff some stored banned word is a case-insensitive substring of T;
\* with no stored word, or with the read failing, it is false.
C4_BannedIffSubstring ==
    IsMessage =>
        \A i \in CallsOf("get_banned_words") :
            LET W == IF calls[i].ok THEN banned_words ELSE <<>>
            IN  /\ Took("banned_word") <=> CaseInsensitiveHit(update.text, W)
                /\ W = <<>> => ~Took("banned_word")

\* a text with the word in capitals, caught by the word stored in lower case
C4_Witness ==
    /\ IsMessage
    /\ update.text = T_bad_hi
    /\ \E i \in CallsOf("get_banned_words") : calls[i].ok
    /\ \E k \in 1..Len(banned_words) : banned_words[k] = Lower(<<"B", "a", "d">>)
    /\ ~Contains(update.text, Lower(<<"B", "a", "d">>))
    /\ Took("banned_word")

\* ------------------------------------------------------------------------
\* C5
\* ------------------------------------------------------------------------

\* the indices of the stored pairs whose trigger is a case-insensitive
\* substring of the text
Matches(text) ==
    {k \in 1..Len(auto_responses) :
        Contains(Lower(text), Lower(auto_responses[k].trigger))}

AutoResponseOf(k) ==
    [text |-> Msg("auto_response", <<auto_responses[k].response>>),
     reply_to |-> update.message_id]

\* at most one response; the first matching pair's when some trigger
\* matches (and the read of the pairs succeeded, if that is asked)
C5_Responds(needs_read) ==
    (IsMessage /\ Took("auto_response")) =>
        LET sends == Only({"sendMessage"})
            hits  == Matches(update.text)
            read  == \A i \in CallsOf("get_auto_responses") : calls[i].ok
        IN  /\ Len(sends) <= 1
            /\ hits = {} => sends = <<>>
            /\ (hits # {} /\ (needs_read => read)) =>
                  /\ Len(sends) = 1
                  /\ sends[1].chat = update.chat_id
                  /\ \E k \in hits :
                        /\ \A j \in hits : k <= j
                        /\ sends[1].val = AutoResponseOf(k)

IsAddResponse ==
    /\ IsMessage
    /\ update.chat_type = "private"
    /\ update.user_id = ADMIN_ID
    /\ StartsWith(update.text, CMD_ADDRESPONSE)

\* what follows "/addresponse " in the text
Payload == SubSeq(update.text, Len(CMD_ADDRESPONSE) + 1, Len(update.text))

\* the pair a payload with the separator stands for: the trigger trimmed
\* (and in lower case, as every stored trigger is), the response trimmed
PairOf(payload) ==
    LET k == Find(payload, SEPARATOR)
    IN  [trigger  |-> Lower(Strip(SubSeq(payload, 1, k - 1))),
         response |-> Strip(SubSeq(payload, k + Len(SEPARATOR), Len(payload)))]

InsertOk == \E i \in CallsOf("add_auto_response") : calls[i].ok

\* a payload with the separator stores its pair (when the insert succeeds,
\* if that is asked); one without stores nothing and gets the format reply
C6_Stores(needs_insert) ==
    IsAddResponse' =>
        LET payload == Payload'
        IN  IF Contains(payload, SEPARATOR)
            THEN IF needs_insert => InsertOk'
                 THEN auto_responses' = Append(auto_responses, PairOf(payload))
                 ELSE auto_responses' = auto_responses
            ELSE /\ auto_responses' = auto_responses
                 /\ CallsOf("add_auto_response")' = {}
                 /\ \E i \in CallsOf("sendMessage")' :
                       /\ calls'[i].chat = update'.chat_id
                       /\ calls'[i].val.text = Msg("addresponse_format", <<>>)

TransportOps ==
    {"sendMessage", "editMessageText", "deleteMessage", "restrictChatMember",
     "getChatMember", "answerCallbackQuery"}

FailedComplaint ==
    /\ IsMessage
    /\ Took("complaint")
    /\ \E i \in CallsOf("add_complaint") : ~calls[i].ok

\* C11: when the Complaint insert fails, the handling makes no outbound
\* call (no confirmation, no admin notification, nothing else), stores no
\* row for the message and ends without an exception.
C11_FailedInsertIsSilent ==
    FailedComplaint =>
        /\ Only(TransportOps) = <<>>
        /\ calls = Only({"add_complaint"})
        /\ Len(calls) = 1
        /\ \A k \in 1..Len(complaints) : complaints[k] # calls[1].val
        /\ ~raised

\* a complaint whose insert failed, after one that was stored
C11_Witness ==
    /\ FailedComplaint
    /\ update.text = T_late
    /\ Len(complaints) = 1

\* ------------------------------------------------------------------------
\* C12
\* ------------------------------------------------------------------------

IsCallback == update.kind = "callback_query"

\* C12: for every callback query, whatever its data, the first call of the
\* handling (before any other outbound call and any Store access) is
\* answerCallbackQuery for the query's id, and it is the only such call.
C12_AnswerFirst ==
    IsCallback =>
        /\ Len(calls) >= 1
        /\ calls[1] = Call("answerCallbackQuery", 0, update.id, <<>>, TRUE)
        /\ CallsOf("answerCallbackQuery") = {1}

\* the statistics panel: the Store was read and the message edited after
\* the acknowledgement
C12_Witness ==
    /\ IsCallback
    /\ update.data = "admin_statistics"
    /\ update.user_id = ADMIN_ID
    /\ update.id = "q2"
    /\ CallsOf("get_complaints_stats") # {}
    /\ CallsOf("editMessageText") # {}

\* ------------------------------------------------------------------------
\* C13
\* ------------------------------------------------------------------------

\* the admin's private /reply with a user-id token that is no integer
BadReplyId ==
    /\ IsMessage
    /\ update.has_from
    /\ update.chat_type = "private"
    /\ update.user_id = ADMIN_ID
    /\ StartsWith(update.text, CMD_REPLY)
    /\ Len(Split(update.text, BLANK, 2)) >= 3
    /\ ~ParseInt(Split(update.text, BLANK, 2)[2]).ok

\* the updates whose handling raises, and where: before any call, or right
\* after the callback's acknowledgement
C13_RaisesAreCaught ==
    /\ (BadReplyId \/ (IsMessage /\ ~update.has_from)) => (raised /\ calls = <<>>)
    /\ (IsCallback /\ (~update.has_data \/ ~update.has_message))
          => (raised /\ Len(calls) = 1)
    /\ raised => Only({"sendMessage", "editMessageText"}) = <<>>
    /\ update = NoUpdate => ENABLED Webhook(CallbackQuery("q1", USER, "faq", TRUE, TRUE))

\* the handling that raised changed nothing: no row, no tracked message, no
\* timer
C13_RaiseChangesNothing == raised' => UNCHANGED <<store, tracker>>

\* C13: an exception raised while routing (the admin's /reply with a bad
\* user id, a message without sender, a callback query without data or
\* message) ends in process_update's except clause: the handling sends no
\* message after it, leaves the tables, the registry and the timers as they
\* were, and the next update is accepted.
C13_ExceptionsAbsorbed == []C13_RaisesAreCaught /\ [][C13_RaiseChangesNothing]_vars

\* a /reply with a bad user id raised, with a complaint already stored
C13_Witness ==
    /\ BadReplyId
    /\ raised
    /\ Len(complaints) = 1

\* ------------------------------------------------------------------------
\* C14
\* ------------------------------------------------------------------------

TrackedIn(registry, chat_id, id) ==
    \E k \in 1..Len(registry[chat_id]) : registry[chat_id][k] = id

Tracked(chat_id, id) == TrackedIn(bot_messages, chat_id, id)

\* a tracker timer's step: one deleteMessage for its message, and the entry
\* and the timer are gone whatever the call's outcome
C14_FiringRemoves ==
    (update'.kind = "timer" /\ update'.task.kind = "auto") =>
        LET t == update'.task
        IN  /\ t \in tasks
            /\ Tracked(t.chat_id, t.message_id)
            /\ Len(calls') = 1
            /\ calls'[1].op = "deleteMessage"
            /\ calls'[1].chat = t.chat_id
            /\ calls'[1].id = t.message_id
            /\ ~TrackedIn(bot_messages', t.chat_id, t.message_id)
            /\ \A x \in tasks' : x.kind = "auto" => x.message_id # t.message_id

\* C14: every entry of the registry (those of the support group, where this
\* specification's sends go) is eventually removed; the timer's step issues
\* one deleteMessage for it and removes it whether the call succeeds or
\* fails, and leaves no timer that would delete it again.
C14_EntriesRemoved ==
    /\ [][C14_FiringRemoves]_vars
    /\ \A id \in MessageIds : Tracked(GROUP_ID, id) ~> ~Tracked(GROUP_ID, id)

\* a timer fired, its deleteMessage failed, its entry is gone and another
\* entry is still waiting
C14_Witness ==
    /\ update.kind = "timer"
    /\ update.task.kind = "auto"
    /\ ~calls[1].ok
    /\ ~Tracked(update.task.chat_id, update.task.message_id)
    /\ bot_messages[GROUP_ID] # <<>>

\* ------------------------------------------------------------------------
\* C15
\* ------------------------------------------------------------------------

\* every entry sits under the chat of a pending tracker timer for it, and
\* once only
C15_EntriesHaveTimers ==
    \A c \in Chats :
        \A k \in 1..Len(bot_messages[c]) :
            /\ \E t \in tasks :
                  t.kind = "auto" /\ t.chat_id = c /\ t.message_id = bot_messages[c][k]
            /\ \A j \in 1..Len(bot_messages[c]) :
                  bot_messages[c][j] = bot_messages[c][k] => j = k

\* the sends of a handling that succeeded and whose settings read, made
\* right after, returned autoDeleteMinutes > 0
TrackedSends(cs) ==
    {i \in 1..Len(cs) :
        /\ cs[i].op = "sendMessage"
        /\ cs[i].ok
        /\ i + 1 <= Len(cs)
        /\ cs[i + 1].op = "get_group_settings"
        /\ cs[i + 1].val.auto_delete_minutes > 0}

\* the ids the handling's tracked sends gave to chat c, in call order
TrackedIds(cs, c) ==
    LET pick == SelectSeq([i \in 1..Len(cs) |-> [c |-> cs[i], n |-> i]],
                          LAMBDA x : x.n \in TrackedSends(cs) /\ x.c.chat = c)
    IN  [k \in 1..Len(pick) |-> pick[k].c.id]

\* the handling of an update adds to the registry the tracked sends' ids,
\* each under its chat and with its timer, and nothing else: a failed send
\* and a send whose read returned 0 add no entry and no tracker timer (a
\* failed send leaves no timer at all)
C15_OnlyTrackedSendsEnter ==
    update'.kind \in {"message", "callback_query"} =>
        /\ \A c \in Chats : bot_messages'[c] = bot_messages[c] \o TrackedIds(calls', c)
        /\ {t \in tasks' : t.kind = "auto"}
              = {t \in tasks : t.kind = "auto"}
                  \cup {Task("auto", calls'[i].chat, calls'[i].id,
                             calls'[i + 1].val.auto_delete_minutes * 60)
                          : i \in TrackedSends(calls')}
        /\ \A i \in 1..Len(calls') :
              (calls'[i].op = "sendMessage" /\ ~calls'[i].ok) =>
                  tasks' \ tasks \subseteq {t \in tasks' : t.kind = "auto"}

Tokens(t) == SelectSeq(Split(t, BLANK, Len(t)), LAMBDA part : part # <<>>)

\* the configured admin's private /reply with fewer than three tokens
ShortReply ==
    /\ IsMessage
    /\ update.has_from
    /\ update.chat_type = "private"
    /\ update.user_id = ADMIN_ID
    /\ Len(Tokens(update.text)) \in 1..2
    /\ Tokens(update.text)[1] = T_reply_bare

\* C16: the configured admin's private /reply with fewer than three
\* whitespace-separated tokens is silently ignored: no outbound call, no
\* store write (no call at all), in particular no Complaint.
C16_ShortReplyIgnored ==
    ShortReply => (calls = <<>> /\ paths = <<"private_admin_command">> /\ ~raised)

\* ------------------------------------------------------------------------
\* C17
\* ------------------------------------------------------------------------

\* C17: a Complaint is created only by a private-chat message whose sender
\* is not the configured admin.
C17_OnlyNonAdminComplaints ==
    (\E i \in CallsOf("add_complaint") : calls[i].ok) =>
        /\ IsMessage
        /\ update.chat_type = "private"
        /\ update.user_id # ADMIN_ID

\* ------------------------------------------------------------------------
\* C18
\* ------------------------------------------------------------------------

\* a step that lowers a user's count is the handling of that user's
\* violation in which the user was restricted and the clear that follows
\* succeeded, and it leaves the count at zero
C18_OnlyClearLowers ==
    \A u \in Users :
        user_warnings'[u] < user_warnings[u] =>
            /\ update'.kind = "message"
            /\ update'.user_id = u
            /\ paths' = <<"banned_word">>
            /\ \E i \in 1..Len(calls') :
                  /\ calls'[i].op = "restrictChatMember"
                  /\ calls'[i].id = u
                  /\ \E j \in (i + 1)..Len(calls') :
                        /\ calls'[j].op = "clear_user_warnings"
                        /\ calls'[j].id = u
                        /\ calls'[j].ok
            /\ user_warnings'[u] = 0

\* C18: a user's stored warning count never decreases except by the clear
\* that follows a mute in the violation flow, which sets it to zero.
C18_WarningsOnlyCleared == [][C18_OnlyClearLowers]_vars

\* the clear after a mute emptied a count that had passed maxWarnings
\* (an earlier read of it had failed)
C18_Witness ==
    /\ IsMessage
    /\ paths = <<"banned_word">>
    /\ \E i \in CallsOf("get_user_warnings") :
          calls[i].ok /\ calls[i].val > StoredSettings.max_warnings
    /\ \E j \in CallsOf("clear_user_warnings") : calls[j].ok
    /\ user_warnings[update.user_id] = 0

\* ------------------------------------------------------------------------
\* C19
\* ------------------------------------------------------------------------

\* C19: in every reachable state the stored autoDeleteMinutes is >= 0 and
\* maxWarnings is >= 1.
C19_SettingsInRange ==
    \A k \in 1..Len(group_settings) :
        /\ group_settings[k].auto_delete_minutes >= 0
        /\ group_settings[k].max_warnings >= 1

\* ------------------------------------------------------------------------
\* C20
\* ------------------------------------------------------------------------

\* the update handled by the step is a message in a group chat that is not
\* the support group
InOtherGroup ==
    /\ IsMessage
    /\ update.has_from
    /\ IsGroupType(update.chat_type)
    /\ update.chat_id # GROUP_ID

SettingsAndWordsUnchanged == UNCHANGED <<group_settings, banned_words>>

\* C20 (as amended): group-admin commands take effect when sent in the
\* support group, and also when sent in another group chat by the
\* configured admin or by a sender verified as creator or administrator of
\* that chat; the same command text sent in another group chat by any
\* other sender changes neither GroupSettings nor the banned-word set.
C20_OtherGroupNeedsAdmin ==
    [][(InOtherGroup' /\ ~IsAdminSender') => SettingsAndWordsUnchanged]_vars

\* C20 (as stated): a command text sent in another group chat changes
\* neither GroupSettings nor the banned-word set
C20_OtherGroupNoEffect == [][InOtherGroup' => SettingsAndWordsUnchanged]_vars

\* a user's /closegroup in the other group was handled and left the open
\* group open, after the same text of that chat's administrator had closed
\* it and the admin's /opengroup had opened it again
C20_Witness ==
    /\ InOtherGroup
    /\ ~IsAdminSender
    /\ update.text = T_closegroup
    /\ NoFault
    /\ Len(group_settings) = 1
    /\ ~group_settings[1].is_closed

\* ------------------------------------------------------------------------
\* C21
\* ------------------------------------------------------------------------

\* C21: after any sequence of /addban and /removeban commands every stored
\* banned word is lowercase and no two stored records hold the same word
C21_LowercaseAndUnique ==
    /\ \A i \in 1..Len(banned_words) : banned_words[i] = Lower(banned_words[i])
    /\ \A i, j \in 1..Len(banned_words) :
          banned_words[i] = banned_words[j] => i = j

\* ------------------------------------------------------------------------
\* C22
\* ------------------------------------------------------------------------

\* the handling's read of the banned words succeeded and one of them is a
\* case-insensitive substring of the text
BannedWordFound ==
    /\ \E i \in CallsOf("get_banned_words") : calls[i].ok
    /\ CaseInsensitiveHit(update.text, banned_words)

AutoResponseSent ==
    \E i \in CallsOf("sendMessage") : calls[i].val.text.kind = "auto_response"

\* the violation flow and nothing of the AutoResponder
ViolationFlowOnly ==
    /\ paths = <<"banned_word">>
    /\ \E i \in CallsOf("deleteMessage") :
          calls[i].chat = update.chat_id /\ calls[i].id = update.message_id
    /\ \E i \in CallsOf("add_warning") : calls[i].id = update.user_id
    /\ CallsOf("get_auto_responses") = {}
    /\ ~AutoResponseSent

\* C22 (as amended): a message in the open support group that starts with
\* neither /start nor /admin, whose sender is neither the configured admin
\* nor a verified chat admin, and in which the (successful) read of the
\* banned words finds a banned word takes the violation flow only, also
\* when it contains an auto-response trigger: deleteMessage is issued for
\* it and the Warning insert is made, and no auto-response is sent; the
\* AutoResponder is reached only for messages in which that check found no
\* banned word, which is every such message when the read fails.
C22_ViolationBeforeAutoResponse ==
    (NonAdminInGroup /\ ~HasPrefix({CMD_START, CMD_ADMIN}) /\ ~RouterReadClosed)
        => /\ BannedWordFound => ViolationFlowOnly
           /\ ~BannedWordFound => paths = <<"auto_response">>

\* C22 (as stated): every non-admin message in the open support group that
\* contains a banned word and a trigger takes the violation flow only, and
\* the AutoResponder is reached only for messages containing no banned word
\* (here even with no call of the handling failing)
C22_BannedWordNeverAnswered ==
    (NonAdminInGroup /\ ~StoredSettings.is_closed /\ NoFault
       /\ CaseInsensitiveHit(update.text, banned_words))
        => /\ Matches(update.text) # {} => ViolationFlowOnly
           /\ ~Took("auto_response")

\* a text with a banned word and a stored trigger took the violation flow
\* and got no auto-response
C22_Witness ==
    /\ NonAdminInGroup
    /\ update.text = T_bad_hi
    /\ BannedWordFound
    /\ Matches(update.text) # {}
    /\ ViolationFlowOnly

\* ------------------------------------------------------------------------
\* C23
\* ------------------------------------------------------------------------

\* the calls of the handling made after the read of the banned words, that
\* is, those of handle_banned_word
ViolationCalls ==
    LET i == CHOOSE k \in CallsOf("get_banned_words") : TRUE
    IN  SubSeq(calls, i + 1, Len(calls))

Ops(cs) == [i \in 1..Len(cs) |-> cs[i].op]

\* a send, and the tracker's read of the settings when the send succeeded
SendOps(c) ==
    IF c.ok THEN <<"sendMessage", "get_group_settings">> ELSE <<"sendMessage">>

\* C23: the handling of one banned-word violation issues deleteMessage for
\* the offending message, then the Warning insert, then the read of the
\* warning count, then the read of the settings; when the count read is at
\* or above maxWarnings it goes on with restrictChatMember, then the mute
\* announcement, then the clearing of the user's warnings, and otherwise
\* with the warning announcement alone; whichever of these calls fail, the
\* warnings are never cleared before restrictChatMember has been called.
C23_StrictOrder ==
    (IsMessage /\ Took("banned_word")) =>
        LET v == ViolationCalls
        IN  /\ Len(v) >= 5
            /\ v[1] = Call("deleteMessage", update.chat_id, update.message_id, <<>>, TRUE)
            /\ v[2].op = "add_warning" /\ v[2].id = update.user_id
            /\ v[3].op = "get_user_warnings" /\ v[3].id = update.user_id
            /\ v[4].op = "get_group_settings"
            /\ IF v[3].val >= v[4].val.max_warnings
               THEN /\ v[5].op = "restrictChatMember"
                    /\ v[5].chat = update.chat_id /\ v[5].id = update.user_id
                    /\ v[5].val = v[4].val.mute_duration
                    /\ Len(v) >= 6
                    /\ v[6].op = "sendMessage"
                    /\ v[6].val.text.kind = "muted"
                    /\ Ops(SubSeq(v, 6, Len(v)))
                         = SendOps(v[6]) \o <<"clear_user_warnings">>
                    /\ v[Len(v)].id = update.user_id
               ELSE /\ v[5].op = "sendMessage"
                    /\ v[5].val.text.kind = "warning"
                    /\ Ops(SubSeq(v, 5, Len(v))) = SendOps(v[5])

\* an escalating violation whose Warning insert failed and whose other
\* calls succeeded made its seven calls and the tracker's read in order
C23_Witness ==
    /\ IsMessage
    /\ Took("banned_word")
    /\ Ops(ViolationCalls)
         = <<"deleteMessage", "add_warning", "get_user_warnings",
             "get_group_settings", "restrictChatMember", "sendMessage",
             "get_group_settings", "clear_user_warnings">>
    /\ ~ViolationCalls[2].ok

\* ------------------------------------------------------------------------
\* C25
\* ------------------------------------------------------------------------

\* the update is the configured admin's /reply <userId> <text> in a private
\* chat, with an integer userId
WellFormedReply ==
    /\ IsMessage
    /\ update.has_from
    /\ update.chat_type = "private"
    /\ update.user_id = ADMIN_ID
    /\ StartsWith(update.text, CMD_REPLY)
    /\ Len(Split(update.text, BLANK, 2)) >= 3
    /\ ParseInt(Split(update.text, BLANK, 2)[2]).ok

\* C25: on the admin's well-formed /reply the text is sent to userId, and
\* the delivery-success notice is sent to the admin only when the send to
\* userId succeeded
C25_NoticeOnlyOnDelivery ==
    WellFormedReply =>
        LET parts == Split(update.text, BLANK, 2)
            sends == Only({"sendMessage"})
        IN  /\ Len(sends) >= 1
            /\ sends[1].chat = ParseInt(parts[2]).val
            /\ sends[1].val.text = Msg("admin_reply", <<parts[3]>>)
            /\ \A i \in 2..Len(sends) :
                  sends[i].val.text.kind = "reply_sent" => sends[1].ok

\* ------------------------------------------------------------------------
\* C27
\* ------------------------------------------------------------------------

AdminTables == <<group_settings, banned_words, auto_responses>>

\* the update handled by the step is a sender's private message that
\* starts with neither /start nor /admin
PrivateText ==
    /\ IsMessage
    /\ update.has_from
    /\ update.chat_type = "private"
    /\ ~HasPrefix({CMD_START, CMD_ADMIN})

\* the text went the complaint's way: one insert of it, which is the one
\* row added when it succeeded, and no other table written
StoredAsComplaint ==
    /\ paths' = <<"complaint">>
    /\ \E i \in CallsOf("add_complaint")' :
          /\ CallsOf("add_complaint")' = {i}
          /\ calls'[i].val.user_id = update'.user_id
          /\ calls'[i].val.message = update'.text
          /\ complaints' = IF calls'[i].ok
                           THEN Append(complaints, calls'[i].val)
                           ELSE complaints
    /\ UNCHANGED user_warnings

\* C27: an update whose sender is neither the configured admin nor a
\* sender that getChatMember verified as creator or administrator of the
\* chat it was sent in never changes GroupSettings, the banned words or the
\* auto-responses; such a sender's /addban, /removeban and /addresponse in
\* a private chat take the path of a complaint and write no other table;
\* a sender whose getChatMember call failed counts as no admin.
C27_OnlyAdminsWrite ==
    [][(update'.kind \in {"message", "callback_query"} /\ ~IsAdminSender')
          => /\ UNCHANGED AdminTables
             /\ PrivateText' => StoredAsComplaint]_vars

\* a user's /removeban of a stored word in a private chat became a
\* complaint and the word is still stored
C27_Witness ==
    /\ PrivateText
    /\ update.user_id = USER
    /\ update.text = T_removeban
    /\ paths = <<"complaint">>
    /\ \E k \in 1..Len(complaints) : complaints[k].message = T_removeban
    /\ CaseInsensitiveHit(update.text, banned_words)

\* ------------------------------------------------------------------------
\* C29
\* ------------------------------------------------------------------------

\* the step is a timer's wake-up that follows another timer's wake-up with
\* no update handled in between, so that no message was sent between the
\* deleteMessage calls of the two
TwoWakeUps == update.kind = "timer" /\ update'.kind = "timer"

\* C29: the bot issues at most one deleteMessage call for a message it has
\* sent: two timers that wake one after the other delete different messages
C29_AtMostOneDelete ==
    [][TwoWakeUps =>
          \/ update'.task.chat_id # update.task.chat_id
          \/ update'.task.message_id # update.task.message_id]_vars

\* ------------------------------------------------------------------------
\* C30
\* ------------------------------------------------------------------------

\* the step handled a group-admin command while a record existed
CommandOnRecord ==
    /\ update'.kind = "message"
    /\ Took("group_admin_command")'
    /\ Len(group_settings) > 0

\* the write of the handling reached the store
SettingsWritten == \E i \in CallsOf("update_group_settings") : calls[i].ok

\* the record is the one there was, but for the named field, which holds
\* the value when the write reached the store and its old value otherwise
OnlyFieldSet(field, value) ==
    /\ Len(group_settings') = Len(group_settings)
    /\ \A f \in DOMAIN DefaultSettings \ {field} :
          group_settings'[1][f] = group_settings[1][f]
    /\ group_settings'[1][field] =
          IF SettingsWritten' THEN value ELSE group_settings[1][field]

\* the handling made no call to the settings table but the tracker's read,
\* and sent the validation reply alone
OnlyValidationReply ==
    /\ CallsOf("select_group_settings") = {}
    /\ CallsOf("update_group_settings") = {}
    /\ Len(Only({"sendMessage"})) = 1
    /\ Only({"sendMessage"})[1].val.text = Msg("invalid_minutes", <<>>)

EscalationPcs == {"restrict_chat_member", "send_muted", "clear_user_warnings"}
MutedPcs == {"send_muted", "clear_user_warnings"}

\* C24: of two violations of one user handled at once, each handler issues
\* restrictChatMember exactly when the count it read is at or above the
\* maxWarnings it read, whatever the other handler did in between; no lock
\* and no re-read keeps the second handler from a second mute call, so that
\* both handlers having observed such a count and both having issued
\* restrictChatMember for one crossing of the threshold is reachable.
C24_EachHandlerMutesOnItsRead ==
    \A w \in Workers :
        LET r == running[w]
        IN  /\ r.pc \in EscalationPcs => r.warning_count >= r.settings.max_warnings
            /\ r.pc = "send_warning" => r.warning_count < r.settings.max_warnings

\* both handlers have issued restrictChatMember for the same user and
\* neither has cleared the warnings: the stored count passed maxWarnings
\* once and stands one above it
C24_Witness ==
    /\ \A w \in Workers :
          /\ running[w].pc \in MutedPcs
          /\ running[w].message.user_id = USER
          /\ running[w].warning_count >= running[w].settings.max_warnings
    /\ user_warnings[USER] = DefaultSettings.max_warnings + 1

\* ------------------------------------------------------------------------
\* C26
\* ------------------------------------------------------------------------

\* C26: also when two update_group_settings calls interleave between the
\* existence check and the write while no record exists, the store never
\* holds more than one GroupSettings record
C26_AtMostOneRecord == Len(group_settings) <= 1

\* ------------------------------------------------------------------------
\* C28
\* ------------------------------------------------------------------------

\* C28: every warning announcement "Warning k/maxWarnings" of the violation
\* flow carries a count k with 1 <= k < maxWarnings, also when the Warning
\* insert fails
C28_AnnouncedCountInRange ==
    IsMessage =>
        \A i \in CallsOf("sendMessage") :
            calls[i].val.text.kind = "warning" =>
                /\ 1 <= calls[i].val.text.args[2]
                /\ calls[i].val.text.args[2] < calls[i].val.text.args[3]

====
